---- MODULE Spec2Model ----
(***************************************************************************)
(* A state-machine model of the WRowFusion rower-state aggregator          *)
(* (src/src/s4/s4.py, class RowerState), of the workout and zone builders  *)
(* it drives (src/src/s4/s4_workouts.py) and of the part of the serial     *)
(* interface that feeds it (src/src/s4/s4if.py, class Rower).              *)
(*                                                                         *)
(* One serial line is one S4Event.  Rower.notify_callbacks hands the event *)
(* to the registered callbacks pulse_monitor and on_rower_event one after  *)
(* the other; each callback takes the aggregator lock for its whole body,  *)
(* so each callback is one atomic step here, and a reader thread calling   *)
(* get_WRValues may run between the two.                                   *)
(*                                                                         *)
(* Conventions.  Python None is NoneInt for integers, "None" for strings   *)
(* and the empty tuple for optional objects.  Times are milliseconds.      *)
(* stroke_rate_pm and stroke_ratio are Python floats rounded to two        *)
(* decimals: they are held in hundredths.  _elapsed_time is a float with   *)
(* one decimal: it is held in tenths of a second.  The s4data value log    *)
(* (_log_s4data, _logger_cache) only records what was received and is not  *)
(* modelled; _last_check_for_pulse is read only by the call of             *)
(* pulse_monitor that has just set it to the current time, so the clock    *)
(* stands for it; _concept2_watts is written and never read.               *)
(***************************************************************************)
EXTENDS Integers, Sequences, FiniteSets, TLC

VARIABLES
    rs,                   \* RowerState's private attributes
    WRValues,             \* the live snapshot
    WRValues_standstill,  \* the standstill snapshot
    workout_builder,      \* RowerState._workout_builder (a Workout)
    workout,              \* RowerState.workout: <<>> or <<a Workout>>
    zone_builder,         \* RowerState._zone_builder (a Zone)
    zone,                 \* RowerState.zone: <<>> or <<a Zone>>
    request_categories,   \* Rower._request_categories
    now,                  \* the wall clock, ms
    callbacks,            \* Rower._callbacks in its iteration order
    script,               \* lines the S4 has sent that the reader has not read yet
    requested,            \* the memory request awaiting its response: <<>> or <<type>>
    hrm,                  \* the HeartRateMonitor's attributes
    hr,                   \* what the latest get_heart_rate call returned: <<>> or <<bpm>>
    held,                 \* per metrics compiler, the dict it holds: <<>> or <<object>>
    written,              \* the latest command written to the serial port, as characters
    line,                 \* the latest line read from the serial port, as characters
    parsed,               \* what S4Event.parse_line made of it: <<>> (None) or <<event>>
    fmcp,                 \* the FTMS control point: the value written, the response indicated
    rower,                \* the Rower's threads, its stop event, its serial port and the locks
    pending,              \* the event being dispatched: <<>> or <<event>>
    todo,                 \* callbacks still to be called for the pending event
    values,               \* what the latest get_WRValues call returned: <<>> or <<snapshot>>
    last,                 \* the operation that made the latest step
    hist                  \* history: what has been processed so far

aggVars  == <<rs, WRValues, WRValues_standstill>>
progVars == <<workout_builder, workout, zone_builder, zone, request_categories>>
codecVars == <<written, line, parsed>>
periVars == <<hrm, hr, held, codecVars, fmcp, rower>>
envVars  == <<now, callbacks, script, requested, periVars>>
vars == <<rs, WRValues, WRValues_standstill, workout_builder, workout, zone_builder,
          zone, request_categories, now, callbacks, script, requested, hrm, hr, held, written, line,
          parsed, fmcp, rower, pending, todo, values, last, hist>>

(***************************************************************************)
(* Program constants                                                       *)
(***************************************************************************)
NUM_STROKES_FOR_ROLLING_AVG_WATTS == 4
NO_ROWING_PULSE_GAP == 300
USE_CONCEPT2_POWER == FALSE

\* The list as Python builds it: 'ms_stored' and '500m_pace' are adjacent string
\* literals with no comma between them (only comments), so they are one element.
IGNORE_LIST ==
    {"wr", "ok", "ping", "model", "pulse", "exit", "none", "total_speed_cmps",
     "ms_stored500m_pace", "stroke_rate", "workout_limit"}

(***************************************************************************)
(* Bounds of the model                                                     *)
(***************************************************************************)
Epoch == 1000      \* the clock value at which the model starts (any positive time)
TickStep == 100    \* the clock advances in steps of this many ms
MaxTime == 400     \* the clock stops this many ms after Epoch

(***************************************************************************)
(* Python helpers                                                          *)
(***************************************************************************)
NoneInt == 0 - 1

\* x or 0
OrZero(x) == IF x = NoneInt THEN 0 ELSE x

\* bool(x) of an optional integer
Truthy(x) == x # NoneInt /\ x # 0

Max(a, b) == IF a >= b THEN a ELSE b

\* bit k of the integer v
Bit(v, k) == (v \div (2 ^ k)) % 2 = 1

\* round(n / d) for integers n >= 0, d > 0: Python 3 rounds halves to even
Round(n, d) ==
    LET q == n \div d
        r == n % d
    IN  IF 2 * r < d THEN q
        ELSE IF 2 * r > d THEN q + 1
        ELSE IF q % 2 = 0 THEN q ELSE q + 1

RECURSIVE Sum(_)
Sum(s) == IF s = <<>> THEN 0 ELSE Head(s) + Sum(Tail(s))

(***************************************************************************)
(* Snapshots                                                               *)
(***************************************************************************)
WRValues_rst ==
    [paddle_turning |-> FALSE, stroke_rate_pm |-> 0, stroke_count |-> 0,
     total_distance_m |-> 0, instant_500m_pace_secs |-> 0, speed_cmps |-> 0,
     instant_watts |-> 0, total_calories |-> 0, heart_rate_bpm |-> 0,
     elapsed_time_secs |-> 0, stroke_ratio |-> 0]

NumericFields ==
    {"stroke_rate_pm", "stroke_count", "total_distance_m", "instant_500m_pace_secs",
     "speed_cmps", "instant_watts", "total_calories", "heart_rate_bpm",
     "elapsed_time_secs", "stroke_ratio"}

InstantFields == {"stroke_rate_pm", "instant_500m_pace_secs", "speed_cmps", "instant_watts"}

\* the standstill snapshot as a bare copy of the live one
WRValuesStandstill_copy(live) == live

\* the standstill snapshot taken from the zeroed snapshot instead of the live one
WRValuesStandstill_fromZeroed(live) == WRValues_rst

\* RowerState.WRValuesStandstill: the value it stores, given the live snapshot
WRValuesStandstill(live) ==
    [live EXCEPT !.stroke_rate_pm = 0, !.instant_500m_pace_secs = 0,
                 !.speed_cmps = 0, !.instant_watts = 0]

(***************************************************************************)
(* Workout and Zone builders (s4_workouts.py)                              *)
(***************************************************************************)
\* Workout.__init__; the attribute `workout` is the one update_from_event
\* creates on a workout_intervals event.
NewWorkout ==
    [workout_flags |-> NoneInt, type |-> "None", intervals_set |-> "None",
     intervals |-> NoneInt, units |-> "None", work_targets |-> <<>>,
     rest_durations |-> <<>>, workout |-> NoneInt]

\* a reset that would clear the captured program and keep the stored flags
reset_keepFlags(w) ==
    [NewWorkout EXCEPT !.workout = w.workout, !.workout_flags = w.workout_flags]

\* Workout.reset runs __init__ again, which leaves the attribute `workout` alone
reset(w) == [NewWorkout EXCEPT !.workout = w.workout]

\* Zone.__init__: bounds is the empty dict
NewZone ==
    [workout_flags |-> NoneInt, zone_trigger_flags |-> NoneInt, type |-> "None",
     units |-> "None", bounds |-> <<>>]

(***************************************************************************)
(* The aggregator's private state after _zero_state                        *)
(***************************************************************************)
ZeroRs ==
    [recent_strokes_max_power |-> <<>>, stroke_max_power |-> 0, drive_phase |-> FALSE,
     watts_event_value |-> 0, rolling_avg_watts |-> 0, pace_500m |-> 0,
     pulse_event_time |-> 0, paddle_turning |-> FALSE,
     seconds_wr |-> 0, minutes_wr |-> 0, hours_wr |-> 0, secdecWR |-> 0,
     elapsed_time |-> 0, total_distance_m |-> 0, total_distance_dec |-> 0,
     total_distance_cm |-> 0, stroke_duration |-> 0, drive_duration |-> 0,
     tank_volume |-> 0]

\* HeartRateMonitor.__init__; the device attributes (manufacturer, model, serial
\* number, source, address, sensor location, battery level) are stored and never
\* read back by the program and are left out
NewHeartRateMonitor ==
    [heart_rate |-> NoneInt, heart_rate_ts |-> NoneInt, skin_contact_detected |-> "None",
     energy_expended |-> NoneInt, energy_expended_ts |-> NoneInt,
     rr_intervals |-> <<>>, rr_intervals_ts |-> NoneInt]

\* the callers of get_WRValues: compile_metrics of api/api_ws.py and of
\* wrf_server_ws.py
Compilers == {"api_ws", "wrf_server_ws"}

\* Rower.__init__
InitialCategories ==
    [c \in {"rowing", "state", "workout", "workout_stat", "zone", "intensity",
            "distance", "duration", "program", "heart_rate", "stroke_rate",
            "miscellaneous", "display"} |->
        c \in {"rowing", "state", "program"}]

\* a lock nobody holds (threading.RLock())
FreeLock == [owner |-> 0, depth |-> 0]

\* a thread: its kind, its stack of program points (the first is the current one,
\* the empty stack is a thread that has ended), the callbacks it has still to
\* notify and its position in MEMORY_MAP
NewThread(kind, entry) ==
    [kind |-> kind, stack |-> <<entry>>, cb |-> 0, at |-> 0]

\* s4if.py 783-790: the threads _start_threads builds and starts, each at the head
\* of its loop: the two request loops and the reader
Daemons ==
    <<NewThread("high", "request"), NewThread("low", "request"),
      NewThread("capture", "capture")>>

\* Rower.__init__: the stop event is clear, the serial port is not open, the locks
\* are free and the daemons are started; thread 1 is the application's thread,
\* which has made no call yet
NewRower ==
    [stop_event |-> FALSE, is_open |-> FALSE, serial_lock |-> FreeLock,
     wr_lock |-> FreeLock,     \* RowerState._wr_lock
     threads |-> <<NewThread("application", "idle")>> \o Daemons,
     calls |-> 0, faults |-> 0]

NoHistory ==
    [reset_pending |-> FALSE, last_pulse_at |-> NoneInt, standstill_seen |-> FALSE,
     hr_update |-> <<>>, hr_calls |-> <<>>, payload |-> <<>>, compiler |-> "None",
     stroke_watts |-> <<>>, zone_seen |-> {}, misc_before |-> NoneInt,
     misc_flags |-> NoneInt]

\* RowerState(rower_interface): __init__ then initialise, which zeroes the state and
\* registers the two callbacks in a set, whose iteration order is either one.
InitWith(s) ==
    /\ rs = ZeroRs
    /\ WRValues = WRValues_rst
    /\ WRValues_standstill = WRValues_rst
    /\ workout_builder = NewWorkout
    /\ workout = <<>>
    /\ zone_builder = NewZone
    /\ zone = <<>>
    /\ request_categories = InitialCategories
    /\ now = Epoch
    /\ callbacks \in {<<"pulse_monitor", "on_rower_event">>,
                      <<"on_rower_event", "pulse_monitor">>}
    /\ script = s
    /\ requested = <<>>
    /\ hrm = NewHeartRateMonitor
    /\ hr = <<>>
    /\ held = [c \in Compilers |-> <<>>]
    /\ written = <<>>
    /\ line = <<>>
    /\ parsed = <<>>
    /\ fmcp = [value |-> <<>>, response |-> <<>>]
    /\ rower = NewRower
    /\ pending = <<>>
    /\ todo = <<>>
    /\ values = <<>>
    /\ last = "init"
    /\ hist = NoHistory

Init == InitWith(<<>>)

(***************************************************************************)
(* The serial reader (Rower._start_capturing, Rower.notify_callbacks)      *)
(***************************************************************************)
Ev(t, v) == [type |-> t, value |-> v]

\* S4Event.build stamps the event with the time at which the line is parsed
Stamp(e) == [type |-> e.type, value |-> e.value, at |-> now]

\* the reader parses one line, any of the events E, and starts notifying
ReadLine(E) ==
    /\ pending = <<>>
    /\ script = <<>>
    /\ \E e \in E : pending' = <<Stamp(e)>>
    /\ todo' = callbacks
    /\ last' = "read"
    /\ UNCHANGED <<aggVars, progVars, envVars, values, hist>>

\* the reader parses the next line of a given input
ReadScripted ==
    /\ pending = <<>>
    /\ script # <<>>
    /\ pending' = <<Stamp(Head(script))>>
    /\ script' = Tail(script)
    /\ todo' = callbacks
    /\ last' = "read"
    /\ UNCHANGED <<aggVars, progVars, now, callbacks, requested, periVars, values, hist>>

\* callback cb is the next one notify_callbacks calls
Calling(cb) == todo # <<>> /\ Head(todo) = cb

\* on_rower_event is being called with an event of type t
Handling(t) == Calling("on_rower_event") /\ pending[1].type = t

\* the callback returns
Return ==
    /\ todo' = Tail(todo)
    /\ pending' = IF Len(todo) = 1 THEN <<>> ELSE pending

\* time passes
Tick ==
    /\ now + TickStep <= Epoch + MaxTime
    /\ now' = now + TickStep
    /\ last' = "tick"
    /\ UNCHANGED <<aggVars, progVars, callbacks, script, requested, periVars, pending, todo,
                   values, hist>>

(***************************************************************************)
(* RowerState.pulse_monitor                                                *)
(***************************************************************************)
\* the comparison with the gap made strict
PulseWithinGap_strict(pulse_event_time, check_time) ==
    /\ Truthy(pulse_event_time)
    /\ check_time - pulse_event_time < NO_ROWING_PULSE_GAP

\* s4.py 570-575: the gap is infinite while no pulse time is stored
PulseWithinGap(pulse_event_time, check_time) ==
    /\ Truthy(pulse_event_time)
    /\ check_time - pulse_event_time <= NO_ROWING_PULSE_GAP

\* the aggregator's state that the callbacks read and write under _wr_lock
Aggregate ==
    [rs |-> rs, WRValues |-> WRValues, WRValues_standstill |-> WRValues_standstill]

\* s4.py 565-582: what pulse_monitor, called with event e at time check_time, makes
\* of the aggregator's state a
pulse_monitor_state(a, e, check_time) ==
    LET pet == IF e.type = "pulse" THEN e.at ELSE a.rs.pulse_event_time
        turning == PulseWithinGap(pet, check_time)
    IN  [rs |-> IF turning
                THEN [a.rs EXCEPT !.pulse_event_time = pet,
                                  !.paddle_turning = TRUE]
                ELSE [a.rs EXCEPT !.pulse_event_time = pet,
                                  !.paddle_turning = FALSE, !.drive_phase = FALSE,
                                  !.recent_strokes_max_power = <<>>],
         WRValues_standstill |->
                IF turning THEN a.WRValues_standstill
                ELSE WRValuesStandstill(a.WRValues),
         WRValues |-> [a.WRValues EXCEPT !.paddle_turning = turning]]

pulse_monitor ==
    /\ Calling("pulse_monitor")
    /\ LET e == pending[1]
           a == pulse_monitor_state(Aggregate, e, now)
           turning == a.rs.paddle_turning
       IN  /\ rs' = a.rs
           /\ WRValues_standstill' = a.WRValues_standstill
           /\ WRValues' = a.WRValues
           /\ hist' = [hist EXCEPT
                         !.reset_pending = IF e.type = "pulse" THEN FALSE ELSE @,
                         !.last_pulse_at = IF e.type = "pulse" THEN e.at ELSE @,
                         !.standstill_seen = IF turning THEN @ ELSE TRUE]
           /\ last' = IF turning THEN "pulse_monitor" ELSE "pulse_monitor_standstill"
    /\ Return
    /\ UNCHANGED <<progVars, envVars, values>>

(***************************************************************************)
(* RowerState.on_rower_event, one action per entry of its handler table    *)
(***************************************************************************)
\* s4.py 262-264: the event type is in IGNORE_LIST
on_rower_event_ignored ==
    /\ Calling("on_rower_event")
    /\ pending[1].type \in IGNORE_LIST
    /\ Return
    /\ last' = "ignored"
    /\ UNCHANGED <<aggVars, progVars, envVars, values, hist>>

\* RowerState._zero_state
_zero_state ==
    /\ rs' = ZeroRs
    /\ WRValues' = WRValues_rst
    /\ WRValues_standstill' = WRValues_rst
    /\ workout_builder' = reset(workout_builder)
    /\ workout' = <<>>
    /\ zone_builder' = NewZone
    /\ zone' = <<>>

\* 'reset'
on_reset ==
    /\ Handling("reset")
    /\ _zero_state
    /\ Return
    /\ last' = "reset"
    /\ hist' = [hist EXCEPT !.reset_pending = TRUE, !.last_pulse_at = NoneInt,
                             !.standstill_seen = FALSE, !.zone_seen = {}]
    /\ UNCHANGED <<request_categories, envVars, values>>

\* RowerState._handle_total_distance
_handle_total_distance ==
    /\ Handling("total_distance")
    /\ WRValues' = [WRValues EXCEPT !.total_distance_m = pending[1].value]
    /\ rs' = [rs EXCEPT !.total_distance_m = pending[1].value]
    /\ Return
    /\ last' = "_handle_total_distance"
    /\ UNCHANGED <<WRValues_standstill, progVars, envVars, values, hist>>

\* the centimetre counter without the guard against lower readings
TotalDistanceCm_unguarded(cm, m, value) == OrZero(m) * 100 + OrZero(value)

\* s4.py 416: the centimetre counter after a total_distance_dec reading
TotalDistanceCm(cm, m, value) == Max(OrZero(cm), OrZero(m) * 100 + OrZero(value))

\* RowerState._handle_total_distance_dec
_handle_total_distance_dec ==
    /\ Handling("total_distance_dec")
    /\ rs' = [rs EXCEPT
                !.total_distance_dec = pending[1].value,
                !.total_distance_cm =
                    TotalDistanceCm(rs.total_distance_cm, rs.total_distance_m,
                                    pending[1].value)]
    /\ Return
    /\ last' = "_handle_total_distance_dec"
    /\ UNCHANGED <<WRValues, WRValues_standstill, progVars, envVars, values, hist>>

\* 'stroke_start', 'stroke_end': _drive_phase is set; nothing else changes
\* s4.py 274-275: what the handlers of 'stroke_start' and 'stroke_end' make of the
\* aggregator's state a
stroke_state(a, e) ==
    [a EXCEPT !.rs.drive_phase = (e.type = "stroke_start")]

on_stroke_start ==
    /\ Handling("stroke_start")
    /\ rs' = stroke_state(Aggregate, pending[1]).rs
    /\ hist' = [hist EXCEPT !.stroke_watts = <<>>]
    /\ Return
    /\ last' = "stroke_start"
    /\ UNCHANGED <<WRValues, WRValues_standstill, progVars, envVars, values>>

on_stroke_end ==
    /\ Handling("stroke_end")
    /\ rs' = stroke_state(Aggregate, pending[1]).rs
    /\ Return
    /\ last' = "stroke_end"
    /\ UNCHANGED <<WRValues, WRValues_standstill, progVars, envVars, values, hist>>

\* s4.py 455: the maximum power of the current stroke after a reading in the drive
StrokeMaxPower(stroke_max_power, watts) == Max(OrZero(stroke_max_power), OrZero(watts))

\* s4.py 457-461: the FIFO after a reading outside the drive
RecentStrokes(recent, stroke_max_power) ==
    LET pushed == IF Truthy(stroke_max_power) THEN Append(recent, stroke_max_power)
                  ELSE recent
        n == Len(pushed)
    IN  IF n > NUM_STROKES_FOR_ROLLING_AVG_WATTS
        THEN SubSeq(pushed, n - NUM_STROKES_FOR_ROLLING_AVG_WATTS + 1, n)
        ELSE pushed

\* s4.py 464: round(sum(recent) / len(recent))
RollingAvgWatts(recent) == Round(Sum(recent), Len(recent))

\* RowerState._handle_watts
_handle_watts ==
    /\ Handling("watts")
    /\ LET watts == pending[1].value
           recent == RecentStrokes(rs.recent_strokes_max_power, rs.stroke_max_power)
       IN  IF rs.drive_phase
           THEN /\ rs' = [rs EXCEPT !.watts_event_value = watts,
                                    !.stroke_max_power = StrokeMaxPower(@, watts)]
                /\ hist' = [hist EXCEPT !.stroke_watts = Append(@, watts)]
                /\ UNCHANGED WRValues
           ELSE /\ rs' = [rs EXCEPT
                            !.watts_event_value = watts,
                            !.stroke_max_power = IF Truthy(@) THEN 0 ELSE @,
                            !.recent_strokes_max_power = recent,
                            !.rolling_avg_watts =
                                IF recent # <<>> THEN RollingAvgWatts(recent) ELSE @]
                /\ WRValues' =
                      IF recent # <<>> /\ ~USE_CONCEPT2_POWER
                      THEN [WRValues EXCEPT !.instant_watts = RollingAvgWatts(recent)]
                      ELSE WRValues
                /\ UNCHANGED hist
    /\ Return
    /\ last' = "_handle_watts"
    /\ UNCHANGED <<WRValues_standstill, progVars, envVars, values>>

\* s4.py 422: round(60000 / duration_ms, 2), in hundredths; 0 for no duration
StrokeRate(duration_ms) == IF duration_ms # 0 THEN Round(6000000, duration_ms) ELSE 0

\* round(n / d) for d > 0 and any sign of n
RoundSigned(n, d) == IF n < 0 THEN 0 - Round(0 - n, d) ELSE Round(n, d)

\* s4.py 494-497: round((stroke - drive) / (drive * 1.25), 2), in hundredths, when
\* both durations are set; the stored ratio is kept otherwise
StrokeRatio(ratio, stroke_duration, drive_duration) ==
    IF Truthy(stroke_duration) /\ Truthy(drive_duration)
    THEN RoundSigned(80 * (stroke_duration - drive_duration), drive_duration)
    ELSE ratio

\* RowerState._handle_avg_time_stroke_whole
_handle_avg_time_stroke_whole ==
    /\ Handling("avg_time_stroke_whole")
    /\ LET duration_ms == OrZero(pending[1].value) * 25
       IN  /\ rs' = [rs EXCEPT !.stroke_duration = duration_ms]
           /\ WRValues' = [WRValues EXCEPT
                             !.stroke_rate_pm = StrokeRate(duration_ms),
                             !.stroke_ratio = StrokeRatio(@, duration_ms, rs.drive_duration)]
    /\ Return
    /\ last' = "_handle_avg_time_stroke_whole"
    /\ UNCHANGED <<WRValues_standstill, progVars, envVars, values, hist>>

\* 'avg_time_stroke_pull': the drive duration is stored, and that is all
on_avg_time_stroke_pull ==
    /\ Handling("avg_time_stroke_pull")
    /\ rs' = IF pending[1].value # NoneInt
             THEN [rs EXCEPT !.drive_duration = pending[1].value * 25]
             ELSE rs
    /\ Return
    /\ last' = "avg_time_stroke_pull"
    /\ UNCHANGED <<WRValues, WRValues_standstill, progVars, envVars, values, hist>>

\* RowerState._handle_500m_pace
_handle_500m_pace ==
    /\ Handling("500m_pace")
    /\ rs' = [rs EXCEPT !.pace_500m = pending[1].value]
    /\ WRValues' = IF Truthy(pending[1].value)
                   THEN [WRValues EXCEPT !.instant_500m_pace_secs = pending[1].value]
                   ELSE WRValues
    /\ Return
    /\ last' = "_handle_500m_pace"
    /\ UNCHANGED <<WRValues_standstill, progVars, envVars, values, hist>>

\* 'stroke_count', 'total_calories', 'heart_rate': WRValues.update
on_stroke_count ==
    /\ Handling("stroke_count")
    /\ WRValues' = [WRValues EXCEPT !.stroke_count = pending[1].value]
    /\ Return
    /\ last' = "stroke_count"
    /\ UNCHANGED <<rs, WRValues_standstill, progVars, envVars, values, hist>>

on_total_calories ==
    /\ Handling("total_calories")
    /\ WRValues' = [WRValues EXCEPT !.total_calories = pending[1].value]
    /\ Return
    /\ last' = "total_calories"
    /\ UNCHANGED <<rs, WRValues_standstill, progVars, envVars, values, hist>>

on_heart_rate ==
    /\ Handling("heart_rate")
    /\ WRValues' = [WRValues EXCEPT !.heart_rate_bpm = pending[1].value]
    /\ Return
    /\ last' = "heart_rate"
    /\ UNCHANGED <<rs, WRValues_standstill, progVars, envVars, values, hist>>

\* 'tank_volume'
on_tank_volume ==
    /\ Handling("tank_volume")
    /\ rs' = [rs EXCEPT !.tank_volume = pending[1].value]
    /\ Return
    /\ last' = "tank_volume"
    /\ UNCHANGED <<WRValues, WRValues_standstill, progVars, envVars, values, hist>>

(***************************************************************************)
(* RowerState.get_WRValues                                                 *)
(***************************************************************************)
\* s4.py 603-609: both branches copy the live snapshot
SelectWRValues(paddle_turning, live, standstill) ==
    IF paddle_turning THEN live ELSE live

get_WRValues ==
    /\ values' = <<SelectWRValues(rs.paddle_turning, WRValues, WRValues_standstill)>>
    /\ last' = "get_WRValues"
    /\ UNCHANGED <<aggVars, progVars, envVars, pending, todo, hist>>

(***************************************************************************)
(* Distance: total_distance and total_distance_dec readings, resets        *)
(***************************************************************************)
DistanceVals == {0, 138, 139}
DecVals == {0, 95}

DistanceEvents ==
    {Ev("total_distance", v) : v \in DistanceVals}
        \cup {Ev("total_distance_dec", v) : v \in DecVals}
        \cup {Ev("reset", NoneInt)}

NextDistance ==
    \/ ReadLine(DistanceEvents)
    \/ pulse_monitor
    \/ _handle_total_distance
    \/ _handle_total_distance_dec
    \/ on_reset
    \/ get_WRValues

SpecDistance == Init /\ [][NextDistance]_vars

\* C1: with no reset in between, the centimetre counter never decreases, and it
\* changes only to a newly assembled reading metres*100 + centimetres that is at
\* least the stored value.
C1_DistanceCmNonDecreasing ==
    [][last' # "reset" =>
        /\ rs'.total_distance_cm >= rs.total_distance_cm
        /\ rs'.total_distance_cm # rs.total_distance_cm =>
              /\ last' = "_handle_total_distance_dec"
              /\ rs'.total_distance_cm = rs.total_distance_m * 100 + pending[1].value]_vars

\* a lower reading has just been rejected
C1_Witness ==
    /\ last = "_handle_total_distance_dec"
    /\ rs.total_distance_cm > rs.total_distance_m * 100 + rs.total_distance_dec

(***************************************************************************)
(* Clock: the four display components and the elapsed time                 *)
(***************************************************************************)
\* 'display_hr', 'display_min', 'display_sec': the component is stored
on_display_hr ==
    /\ Handling("display_hr")
    /\ rs' = [rs EXCEPT !.hours_wr = pending[1].value]
    /\ Return
    /\ last' = "display_hr"
    /\ UNCHANGED <<WRValues, WRValues_standstill, progVars, envVars, values, hist>>

on_display_min ==
    /\ Handling("display_min")
    /\ rs' = [rs EXCEPT !.minutes_wr = pending[1].value]
    /\ Return
    /\ last' = "display_min"
    /\ UNCHANGED <<WRValues, WRValues_standstill, progVars, envVars, values, hist>>

on_display_sec ==
    /\ Handling("display_sec")
    /\ rs' = [rs EXCEPT !.seconds_wr = pending[1].value]
    /\ Return
    /\ last' = "display_sec"
    /\ UNCHANGED <<WRValues, WRValues_standstill, progVars, envVars, values, hist>>

\* s4.py 484: the time the four components spell, in tenths of a second
CompiledTime(hours, minutes, seconds, secdec) ==
    OrZero(hours) * 36000 + OrZero(minutes) * 600 + OrZero(seconds) * 10 + OrZero(secdec)

\* the elapsed time without the guard against backward jumps
ElapsedTime_unguarded(elapsed, compiled) == compiled

\* s4.py 488: the elapsed time after a recomputation, in tenths of a second
ElapsedTime(elapsed, compiled) == Max(OrZero(elapsed), compiled)

\* 'display_sec_dec': the component is stored, then _compute_elapsed_time runs
on_display_sec_dec ==
    /\ Handling("display_sec_dec")
    /\ LET elapsed == ElapsedTime(rs.elapsed_time,
                         CompiledTime(rs.hours_wr, rs.minutes_wr, rs.seconds_wr,
                                      pending[1].value))
       IN  /\ rs' = [rs EXCEPT !.secdecWR = pending[1].value, !.elapsed_time = elapsed]
           /\ WRValues' = [WRValues EXCEPT !.elapsed_time_secs = elapsed \div 10]
    /\ Return
    /\ last' = "display_sec_dec"
    /\ UNCHANGED <<WRValues_standstill, progVars, envVars, values, hist>>

HourVals == {0, 1}
MinuteVals == {0, 59}
SecondVals == {0, 59}
SecDecVals == {0, 9}

ClockEvents ==
    {Ev("display_hr", v) : v \in HourVals}
        \cup {Ev("display_min", v) : v \in MinuteVals}
        \cup {Ev("display_sec", v) : v \in SecondVals}
        \cup {Ev("display_sec_dec", v) : v \in SecDecVals}
        \cup {Ev("reset", NoneInt)}

NextClock ==
    \/ ReadLine(ClockEvents)
    \/ pulse_monitor
    \/ on_display_hr
    \/ on_display_min
    \/ on_display_sec
    \/ on_display_sec_dec
    \/ on_reset
    \/ get_WRValues

SpecClock == Init /\ [][NextClock]_vars

\* C2: with no reset in between, the published elapsed_time_secs never decreases,
\* whatever the clock components carry; it is at least the whole seconds the
\* components spell after each display_sec_dec event.
C2_ElapsedTimeNonDecreasing ==
    [][last' # "reset" =>
        /\ WRValues'.elapsed_time_secs >= WRValues.elapsed_time_secs
        /\ last' = "display_sec_dec" =>
              WRValues'.elapsed_time_secs >=
                  CompiledTime(rs'.hours_wr, rs'.minutes_wr, rs'.seconds_wr,
                               rs'.secdecWR) \div 10]_vars

\* a recomputation has just kept the earlier, larger elapsed time
C2_Witness ==
    /\ last = "display_sec_dec"
    /\ WRValues.elapsed_time_secs >
          CompiledTime(rs.hours_wr, rs.minutes_wr, rs.seconds_wr, rs.secdecWR) \div 10

(***************************************************************************)
(* Paddle: pulses, the clock, and what a reader of the snapshot gets       *)
(***************************************************************************)
PaddleEvents ==
    {Ev("pulse", NoneInt), Ev("ping", NoneInt), Ev("reset", NoneInt),
     Ev("avg_time_stroke_whole", 96), Ev("stroke_count", 50), Ev("500m_pace", 124)}

NextPaddle ==
    \/ ReadLine(PaddleEvents)
    \/ Tick
    \/ pulse_monitor
    \/ on_rower_event_ignored
    \/ on_reset
    \/ _handle_avg_time_stroke_whole
    \/ on_stroke_count
    \/ _handle_500m_pace
    \/ get_WRValues

SpecPaddle == Init /\ [][NextPaddle]_vars

\* every numeric field of snapshot v is 0
Zeroed(v) == \A f \in NumericFields : v[f] = 0

\* C3: from a processed reset until a pulse is processed, every read returns a
\* snapshot whose numeric fields are all 0, whatever is processed in between.
C3_ZeroedUntilPulse ==
    (last = "get_WRValues" /\ hist.reset_pending) => Zeroed(values[1])

\* C4: a read returns the live snapshot while paddle_turning is true, and while it
\* is false (after the 300 ms timeout, or before any pulse) it returns the
\* standstill snapshot, so that the four instantaneous fields it returns are 0.
C4_SelectionRule ==
    last = "get_WRValues" =>
        IF rs.paddle_turning
        THEN values[1] = WRValues
        ELSE \A f \in InstantFields : values[1][f] = 0

\* C5 as stated: at every instant paddle_turning is true iff a pulse was
\* processed within the last 300 ms.
C5_AtEveryInstant ==
    rs.paddle_turning <=>
        (hist.last_pulse_at # NoneInt /\ now - hist.last_pulse_at <= 300)

\* C5 as amended: when pulse_monitor returns, paddle_turning is true iff a pulse
\* event has been processed since the state was last zeroed and the latest one is
\* stamped at most 300 ms before the check.
C5_WhenPulseMonitorReturns ==
    last \in {"pulse_monitor", "pulse_monitor_standstill"} =>
        (rs.paddle_turning <=>
            (hist.last_pulse_at # NoneInt /\ now - hist.last_pulse_at <= 300))

\* both verdicts at their limits: a check exactly 300 ms after the pulse, and a
\* check later than that
C5_Witness ==
    /\ last \in {"pulse_monitor", "pulse_monitor_standstill"}
    /\ hist.last_pulse_at # NoneInt
    /\ \/ rs.paddle_turning /\ now - hist.last_pulse_at = 300
       \/ ~rs.paddle_turning /\ now - hist.last_pulse_at > 300

\* C9 as stated: in every state the standstill snapshot is the live snapshot with
\* the four instantaneous fields forced to 0.
C9_InEveryState ==
    \A f \in DOMAIN WRValues :
        WRValues_standstill[f] = IF f \in InstantFields THEN 0 ELSE WRValues[f]

\* C9 as amended: when pulse_monitor returns having found the paddle at rest, the
\* standstill snapshot is the live snapshot with the four instantaneous fields
\* forced to 0, in every field but paddle_turning.
C9_WhenStandstillDetected ==
    last = "pulse_monitor_standstill" =>
        \A f \in NumericFields :
            WRValues_standstill[f] = IF f \in InstantFields THEN 0 ELSE WRValues[f]

\* the paddle is found at rest while the live snapshot holds a stroke rate, a pace
\* and a stroke count
C9_Witness ==
    /\ last = "pulse_monitor_standstill"
    /\ WRValues.stroke_rate_pm > 0
    /\ WRValues.instant_500m_pace_secs > 0
    /\ WRValues.stroke_count > 0

\* C10: the standstill snapshot has its four instantaneous fields 0 in every state.
C10_StandstillInstantZero ==
    \A f \in InstantFields : WRValues_standstill[f] = 0

\* the standstill snapshot has been refreshed from a live snapshot that holds a
\* stroke rate and a pace
C10_Witness ==
    /\ WRValues_standstill.stroke_count > 0
    /\ WRValues.stroke_rate_pm > 0
    /\ WRValues.instant_500m_pace_secs > 0


(***************************************************************************)
(* Scenario A: total_distance_dec 0x5F, total_distance 0x8A,               *)
(* total_distance_dec 0x00, total_distance 0x8B on a zeroed aggregator     *)
(***************************************************************************)
ScenarioA ==
    <<Ev("total_distance_dec", 95), Ev("total_distance", 138),
      Ev("total_distance_dec", 0), Ev("total_distance", 139)>>

NextScenarioA ==
    \/ ReadScripted
    \/ Tick
    \/ pulse_monitor
    \/ _handle_total_distance
    \/ _handle_total_distance_dec
    \/ get_WRValues

SpecScenarioA == InitWith(ScenarioA) /\ [][NextScenarioA]_vars

\* both callbacks have returned from the last line of the input
ScriptDone == script = <<>> /\ pending = <<>>

\* C7: after the four readings the snapshot has total_distance_m = 139 and the
\* centimetre counter is 13900.
C7_ScenarioA ==
    ScriptDone => /\ WRValues.total_distance_m = 139
                  /\ rs.total_distance_cm = 13900

(***************************************************************************)
(* Scenario C: four strokes with watts readings inside the drive, while    *)
(* pulses keep the paddle turning                                          *)
(***************************************************************************)
ScenarioC ==
    <<Ev("pulse", 1),
      Ev("stroke_start", NoneInt), Ev("watts", 200), Ev("watts", 300),
      Ev("stroke_end", NoneInt),
      Ev("stroke_start", NoneInt), Ev("watts", 500), Ev("stroke_end", NoneInt),
      Ev("stroke_start", NoneInt), Ev("watts", 400), Ev("stroke_end", NoneInt),
      Ev("stroke_start", NoneInt), Ev("watts", 100), Ev("stroke_end", NoneInt)>>

NextScenarioC ==
    \/ ReadScripted
    \/ Tick
    \/ pulse_monitor
    \/ on_rower_event_ignored
    \/ on_stroke_start
    \/ on_stroke_end
    \/ _handle_watts
    \/ get_WRValues

SpecScenarioC == InitWith(ScenarioC) /\ [][NextScenarioC]_vars

\* C6: with the paddle turning throughout, after the last stroke_end the published
\* instant_watts is round((300+500+400+100)/4) = 325.
C6_ScenarioC ==
    (ScriptDone /\ ~hist.standstill_seen /\ rs.paddle_turning)
        => WRValues.instant_watts = 325


(***************************************************************************)
(* WorkoutMode and DistanceMode bit fields (s4if.py)                       *)
(***************************************************************************)
WORKOUT_MASK == {4, 5, 6, 7}
ZONE_MASK == {0, 1, 2}

\* the comparison of the flags made over all eight bits
changed_any_bits(old, new) == old # new

changed_workout_bits(old, new) == \E k \in WORKOUT_MASK : Bit(old, k) # Bit(new, k)
changed_zone_bits(old, new) == \E k \in ZONE_MASK : Bit(old, k) # Bit(new, k)
has_workout_set(flags) == \E k \in WORKOUT_MASK : Bit(flags, k)
is_duration(flags) == Bit(flags, 5) \/ Bit(flags, 7)
is_distance(flags) == Bit(flags, 4) \/ Bit(flags, 6)
is_interval(flags) == Bit(flags, 7) \/ Bit(flags, 6)

\* the empty string when no zone bit is set
get_zone_type(flags) ==
    IF Bit(flags, 1) THEN "intensity"
    ELSE IF Bit(flags, 0) THEN "heart_rate"
    ELSE IF Bit(flags, 2) THEN "stroke_rate"
    ELSE ""

\* DistanceMode.get_single_unit_mode: mode & UNIT_MASK (bits 2..6) when it is one
\* bit, else None
get_single_unit_mode(mode) ==
    LET unit_bits == ((mode \div 4) % 32) * 4
    IN  IF unit_bits \in {4, 8, 16, 32, 64} THEN unit_bits ELSE NoneInt

\* unit_map.get(selected_unit) of Workout.update_from_event
unit_map(selected_unit) ==
    CASE selected_unit = 4 -> "metres"
      [] selected_unit = 8 -> "miles"
      [] selected_unit = 16 -> "km"
      [] selected_unit = 32 -> "strokes"
      [] OTHER -> "None"

(***************************************************************************)
(* Workout (s4_workouts.py)                                                *)
(***************************************************************************)
\* a Python bool as held in an attribute that may also be None
PyBool(b) == IF b THEN "True" ELSE "False"

\* the dict d after d[k] = v
DictSet(d, k, v) == [i \in DOMAIN d \cup {k} |-> IF i = k THEN v ELSE d[i]]

\* len(d)
DictLen(d) == Cardinality(DOMAIN d)

\* Workout.update_if_flags_changed: the first value of the pair is what it returns
update_if_flags_changed(w, flags) ==
    IF w.workout_flags # NoneInt /\ ~changed_workout_bits(w.workout_flags, flags)
    THEN <<FALSE, w>>
    ELSE LET r == reset(w)
         IN  <<TRUE,
               IF has_workout_set(flags)
               THEN [r EXCEPT
                       !.type = IF is_duration(flags) THEN "duration"
                                ELSE IF is_distance(flags) THEN "distance" ELSE @,
                       !.units = IF is_duration(flags) THEN "secs" ELSE @,
                       !.intervals_set = PyBool(is_interval(flags)),
                       !.workout_flags = flags]
               ELSE [r EXCEPT !.type = "just_row", !.intervals_set = "False",
                              !.workout_flags = flags]>>

\* the event types 'workout_work<n>' and 'workout_rest<n>' of the handler table
WorkTypes ==
    <<"workout_work1", "workout_work2", "workout_work3", "workout_work4",
      "workout_work5", "workout_work6", "workout_work7", "workout_work8",
      "workout_work9">>
RestTypes ==
    <<"workout_rest1", "workout_rest2", "workout_rest3", "workout_rest4",
      "workout_rest5", "workout_rest6", "workout_rest7", "workout_rest8">>

\* Workout.update_from_event; the count of a workout_intervals event goes to the
\* attribute `workout`, not to `intervals`
update_from_event(w, evt) ==
    IF evt.value = NoneInt THEN w
    ELSE IF evt.type = "workout_intervals"
    THEN [w EXCEPT !.workout = Max(evt.value - 1, 0)]
    ELSE IF evt.type = "distance1_disp_flags"
    THEN LET selected_unit == get_single_unit_mode(evt.value)
         IN  IF ~Truthy(selected_unit) THEN w
             ELSE [w EXCEPT !.units = unit_map(selected_unit)]
    ELSE IF \E index \in DOMAIN WorkTypes : WorkTypes[index] = evt.type
    THEN LET index == CHOOSE i \in DOMAIN WorkTypes : WorkTypes[i] = evt.type
         IN  [w EXCEPT !.work_targets = DictSet(@, index, evt.value)]
    ELSE IF \E index \in DOMAIN RestTypes : RestTypes[index] = evt.type
    THEN LET index == CHOOSE i \in DOMAIN RestTypes : RestTypes[i] = evt.type
         IN  [w EXCEPT !.rest_durations = DictSet(@, index, evt.value)]
    ELSE w

\* Workout.is_valid
is_valid(w) ==
    IF w.type = "None" \/ w.units = "None" THEN FALSE
    ELSE IF w.type = "duration" /\ w.units # "secs" THEN FALSE
    ELSE IF w.type = "distance" /\ w.units \notin {"metres", "strokes", "miles", "km"}
    THEN FALSE
    ELSE IF w.intervals_set = "None" /\ w.intervals = NoneInt THEN FALSE
    ELSE IF w.intervals_set = "True"
    THEN IF w.intervals = NoneInt THEN FALSE
         ELSE IF w.intervals = 0 THEN FALSE
         ELSE IF DictLen(w.work_targets) + DictLen(w.rest_durations) > w.intervals
         THEN FALSE
         ELSE DictLen(w.work_targets) + DictLen(w.rest_durations) = w.intervals
    ELSE DictLen(w.work_targets) = 1


(***************************************************************************)
(* Zone (s4_workouts.py)                                                   *)
(***************************************************************************)
\* a bound not yet read is None
NoBounds == <<NoneInt, NoneInt>>

\* Zone._reset_bounds
_reset_bounds == [k \in {"bpm", "mps", "mph", "500m_pace", "2km_pace", "spm"} |-> NoBounds]

\* Zone.update_type_if_flags_changed: the first value of the pair is what it returns
update_type_if_flags_changed(z, flags) ==
    IF z.workout_flags # NoneInt /\ ~changed_zone_bits(z.workout_flags, flags)
    THEN <<FALSE, z>>
    ELSE LET zone_type == get_zone_type(flags)
         IN  <<TRUE,
               [z EXCEPT !.workout_flags = flags,
                         !.type = zone_type,
                         !.units = IF zone_type = "heart_rate" THEN "bpm"
                                   ELSE IF zone_type = "stroke_rate" THEN "spm"
                                   ELSE "None",
                         !.bounds = _reset_bounds]>>

(***************************************************************************)
(* The handlers of the workout program                                     *)
(***************************************************************************)
\* Rower.set_request_category for each category in cats
set_request_category(categories, cats, enabled) ==
    [c \in DOMAIN categories |-> IF c \in cats THEN enabled ELSE categories[c]]

\* RowerState._handle_workout_flags
_handle_workout_flags ==
    /\ Handling("workout_flags")
    /\ IF pending[1].value = NoneInt
       THEN UNCHANGED <<progVars, hist>>
       ELSE LET w == update_if_flags_changed(workout_builder, pending[1].value)
                z == update_type_if_flags_changed(zone_builder, pending[1].value)
                on == (IF w[1] THEN {"workout", "distance"} ELSE {})
                          \cup (IF z[1] THEN {"zone", "intensity"} ELSE {})
            IN  /\ workout_builder' = w[2]
                /\ workout' = IF w[1] THEN <<>> ELSE workout
                /\ zone_builder' = z[2]
                /\ zone' = IF z[1] THEN <<>> ELSE zone
                /\ request_categories' = set_request_category(request_categories, on, TRUE)
                /\ hist' = [hist EXCEPT !.zone_seen = IF z[1] THEN {} ELSE @]
    /\ Return
    /\ last' = "_handle_workout_flags"
    /\ UNCHANGED <<aggVars, envVars, values>>

\* the event types the handler table sends to _handle_workout_program
WorkoutProgramTypes ==
    {"distance1_disp_flags", "workout_intervals"}
        \cup {WorkTypes[i] : i \in DOMAIN WorkTypes}
        \cup {RestTypes[i] : i \in DOMAIN RestTypes}

\* self.workout were it assigned the builder itself and not a copy: once
\* published it is the same object as the builder and shows its later changes
Published_sameObject(published, builder) ==
    IF is_valid(builder) \/ published # <<>> THEN <<builder>> ELSE published

\* s4.py 390-395: self.workout after the handler, a deepcopy of the builder when
\* the builder is valid and the workout published before otherwise
Published(published, builder) == IF is_valid(builder) THEN <<builder>> ELSE published

\* RowerState._handle_workout_program
_handle_workout_program ==
    /\ Calling("on_rower_event")
    /\ pending[1].type \in WorkoutProgramTypes
    /\ LET builder == update_from_event(workout_builder, pending[1])
       IN  /\ workout_builder' = builder
           /\ workout' = Published(workout, builder)
           /\ request_categories' =
                 IF is_valid(builder)
                 THEN set_request_category(request_categories, {"workout", "distance"}, FALSE)
                 ELSE request_categories
    /\ Return
    /\ last' = "_handle_workout_program"
    /\ UNCHANGED <<aggVars, zone_builder, zone, envVars, values, hist>>

(***************************************************************************)
(* The low-frequency request loop (Rower._start_requesting)                *)
(***************************************************************************)
\* MEMORY_MAP: the category of a polled address, by the type of its response
Category(t) ==
    CASE t = "workout_flags" -> "state"
      [] t = "distance1_disp_flags" -> "distance"
      [] t \in WorkoutProgramTypes -> "workout"

\* the loop requests the next address whose category is not switched off
request_address(T) ==
    /\ requested = <<>>
    /\ \E t \in T :
          /\ request_categories[Category(t)] # FALSE
          /\ requested' = <<t>>
    /\ last' = "request_address"
    /\ UNCHANGED <<aggVars, progVars, now, callbacks, script, periVars, pending, todo, values,
                   hist>>

\* the reader parses the S4's response to the request, any of the events E of
\* the requested type
ReadResponse(E) ==
    /\ pending = <<>>
    /\ requested # <<>>
    /\ \E e \in E :
          /\ e.type = requested[1]
          /\ pending' = <<Stamp(e)>>
    /\ requested' = <<>>
    /\ todo' = callbacks
    /\ last' = "read"
    /\ UNCHANGED <<aggVars, progVars, now, callbacks, script, periVars, values, hist>>

(***************************************************************************)
(* Workout program: flags, units, interval count, work and rest periods    *)
(***************************************************************************)
WorkoutFlagVals == {0, 16, 17, 32, 64}
DistanceFlagVals == {4, 12, 64}
IntervalVals == {0, 3}

WorkoutResponses ==
    {Ev("workout_flags", v) : v \in WorkoutFlagVals}
        \cup {Ev("distance1_disp_flags", v) : v \in DistanceFlagVals}
        \cup {Ev("workout_intervals", v) : v \in IntervalVals}
        \cup {Ev("workout_work1", 1000), Ev("workout_rest1", 60), Ev("workout_work2", 500)}

WorkoutRequests == {e.type : e \in WorkoutResponses}

NextWorkout ==
    \/ request_address(WorkoutRequests)
    \/ ReadResponse(WorkoutResponses)
    \/ ReadLine({Ev("reset", NoneInt)})
    \/ pulse_monitor
    \/ on_reset
    \/ _handle_workout_flags
    \/ _handle_workout_program

SpecWorkout == Init /\ [][NextWorkout]_vars

\* C8: whenever the workout builder is valid, the number of its work targets plus
\* the number of its rest durations equals its interval count.
C8_ValidImpliesCount ==
    is_valid(workout_builder) =>
        DictLen(workout_builder.work_targets) + DictLen(workout_builder.rest_durations)
            = workout_builder.intervals


(***************************************************************************)
(* HeartRateMonitor (hr/heart_rate.py)                                     *)
(***************************************************************************)
\* seconds
HRM_TIMEOUT == 10

\* get_heart_rate with the check of the reading's age left out
get_heart_rate_noTimeout(m, t) ==
    IF Truthy(m.heart_rate) /\ m.heart_rate > 0 /\ m.heart_rate_ts # NoneInt
    THEN m.heart_rate
    ELSE 0

\* HeartRateMonitor.get_heart_rate called at time t (ms): the value it returns
get_heart_rate(m, t) ==
    IF Truthy(m.heart_rate) /\ m.heart_rate > 0
    THEN IF m.heart_rate_ts # NoneInt
         THEN IF t - m.heart_rate_ts < HRM_TIMEOUT * 1000 THEN m.heart_rate ELSE 0
         ELSE 0
    ELSE 0

\* s4_heart_beat_task reads the heart rate once per loop
s4_heart_beat_task ==
    /\ hr' = <<get_heart_rate(hrm, now)>>
    /\ last' = "get_heart_rate"
    /\ UNCHANGED <<aggVars, progVars, now, callbacks, script, requested, hrm, held,
                   codecVars, fmcp, rower, pending, todo, values, hist>>

(***************************************************************************)
(* HeartRateBLEScanner.handle_heart_rate (ble_client.py)                   *)
(***************************************************************************)
Min(a, b) == IF a <= b THEN a ELSE b

\* data[a:b] of a bytearray, indices from 0
Slice(data, a, b) == SubSeq(data, a + 1, Min(b, Len(data)))

\* int.from_bytes(bytes, byteorder="little")
RECURSIVE from_bytes_little(_)
from_bytes_little(bytes) ==
    IF bytes = <<>> THEN 0 ELSE Head(bytes) + 256 * from_bytes_little(Tail(bytes))

CONTACT_STATUS_MEANING ==
    <<"Not supported", "Not supported", "No skin contact detected", "Skin contact detected">>

\* the RR intervals read from position index on
RECURSIVE RrIntervals(_, _)
RrIntervals(data, index) ==
    IF index + 1 < Len(data)
    THEN <<from_bytes_little(Slice(data, index, index + 2))>> \o RrIntervals(data, index + 2)
    ELSE <<>>

\* the value read as one byte whatever the format flag says
HrValue_uint8(data) == IF Len(data) >= 2 THEN data[2] ELSE 0

\* ble_client.py 293-300: the heart-rate value of a payload that does not raise
HrValue(data) ==
    IF Bit(data[1], 0) THEN from_bytes_little(Slice(data, 1, 3)) ELSE data[2]

\* data[0] or data[1] raises IndexError, which the handler catches and logs
Raises(data) == Len(data) = 0 \/ (~Bit(data[1], 0) /\ Len(data) < 2)

\* the monitor after the handler has run on the payload at time t
HandledHeartRate(m, data, t) ==
    LET flags == data[1]
        index1 == IF Bit(flags, 0) THEN 3 ELSE 2
        contact_status == (flags \div 2) % 4
        energy == Bit(flags, 3) /\ index1 + 2 <= Len(data)
        index2 == IF energy THEN index1 + 2 ELSE index1
    IN  [m EXCEPT
           !.heart_rate = HrValue(data),
           !.heart_rate_ts = t,
           !.skin_contact_detected = CONTACT_STATUS_MEANING[contact_status + 1],
           !.energy_expended =
               IF energy THEN from_bytes_little(Slice(data, index1, index1 + 2)) ELSE @,
           !.energy_expended_ts = IF energy THEN t ELSE @,
           !.rr_intervals = IF Bit(flags, 4) THEN RrIntervals(data, index2) ELSE @,
           !.rr_intervals_ts = IF Bit(flags, 4) THEN t ELSE @]

\* a notification of the Heart Rate Measurement characteristic, any payload of P
handle_heart_rate(P) ==
    /\ \E data \in P :
          IF Raises(data)
          THEN /\ hrm' = hrm
               /\ hist' = [hist EXCEPT !.hr_calls = <<>>, !.payload = data]
          ELSE /\ hrm' = HandledHeartRate(hrm, data, now)
               /\ hist' = [hist EXCEPT !.hr_calls = <<HrValue(data)>>, !.payload = data,
                                       !.hr_update = <<[hr |-> HrValue(data), at |-> now]>>]
    /\ held' = [c \in Compilers |->
                  IF held[c] = <<>> THEN <<>> ELSE <<[held[c][1] EXCEPT !.injected = 0]>>]
    /\ last' = "handle_heart_rate"
    /\ UNCHANGED <<aggVars, progVars, now, callbacks, script, requested, hr, codecVars, fmcp, rower,
                   pending, todo, values>>


(***************************************************************************)
(* compile_metrics (api/api_ws.py) and HeartRateMonitor.inject_heart_rate  *)
(***************************************************************************)
\* Python objects have an identity.  "WRValues" is the aggregator's live dict; a
\* deepcopy made for caller c is a new object, named after c, which drops the
\* object it held before.
deepcopy_sameObject(source, c) == source

deepcopy(source, c) == c

\* what the dict object o holds: the live dict itself when o is that object
Contents(o) == IF o.id = "WRValues" THEN WRValues ELSE o.dict

\* wr_values = rower_state.get_WRValues()
compile_metrics(c) ==
    /\ LET dict == SelectWRValues(rs.paddle_turning, WRValues, WRValues_standstill)
       IN  /\ held' = [held EXCEPT
                         ![c] = <<[id |-> deepcopy("WRValues", c), dict |-> dict,
                                   injected |-> 0]>>]
           /\ values' = <<dict>>
    /\ hist' = [hist EXCEPT !.compiler = c]
    /\ last' = "compile_metrics"
    /\ UNCHANGED <<aggVars, progVars, now, callbacks, script, requested, hrm, hr, codecVars,
                   fmcp, rower, pending, todo>>

\* inject_heart_rate that lets the external reading replace the rower's
InjectedValues_always(dict, ext_hr) ==
    IF Truthy(ext_hr) THEN [dict EXCEPT !.heart_rate_bpm = ext_hr] ELSE dict

\* inject_heart_rate that writes whatever the monitor returns
InjectedValues_unconditional(dict, ext_hr) == [dict EXCEPT !.heart_rate_bpm = ext_hr]

\* heart_rate.py 122-128: the dict after inject_heart_rate, ext_hr being what
\* get_heart_rate returns
InjectedValues(dict, ext_hr) ==
    IF dict.heart_rate_bpm = 0
    THEN IF Truthy(ext_hr) THEN [dict EXCEPT !.heart_rate_bpm = ext_hr] ELSE dict
    ELSE dict

\* how many times inject_heart_rate is applied to one dict while the monitor is not
\* updated
MaxInjects == 2

\* hr_monitor.inject_heart_rate(wr_values): the dict is changed in place, so the
\* change shows in every reference to the same object
inject_heart_rate(c) ==
    /\ held[c] # <<>>
    /\ held[c][1].injected < MaxInjects
    /\ LET o == held[c][1]
           new == InjectedValues(Contents(o), get_heart_rate(hrm, now))
       IN  /\ WRValues' = IF o.id = "WRValues" THEN new ELSE WRValues
           /\ held' = [k \in Compilers |->
                         IF held[k] # <<>> /\ held[k][1].id = o.id
                         THEN <<[held[k][1] EXCEPT !.dict = new,
                                                   !.injected = IF k = c THEN @ + 1 ELSE @]>>
                         ELSE held[k]]
    /\ hist' = [hist EXCEPT !.compiler = c]
    /\ last' = "inject_heart_rate"
    /\ UNCHANGED <<rs, WRValues_standstill, progVars, now, callbacks, script, requested,
                   hrm, hr, codecVars, fmcp, rower, pending, todo, values>>

(***************************************************************************)
(* Heart rate: BLE notifications, S4 heart_rate readings, the readers      *)
(***************************************************************************)
SleepStep == 5000
MaxSleep == 15000

\* seconds pass
Sleep ==
    /\ now + SleepStep <= Epoch + MaxSleep
    /\ now' = now + SleepStep
    /\ last' = "sleep"
    /\ UNCHANGED <<aggVars, progVars, callbacks, script, requested, periVars, pending, todo,
                   values, hist>>

\* Heart Rate Measurement payloads: 8-bit and 16-bit values, contact bits, energy
\* expended, RR intervals, and payloads cut short
Payloads ==
    {<<0, 75>>, <<1, 44, 1>>, <<0, 0>>, <<6, 80>>, <<8, 75, 10, 0>>, <<16, 75, 32, 3>>,
     <<1, 75>>, <<1>>, <<0>>, <<>>}

NextHeartRate ==
    \/ handle_heart_rate(Payloads)
    \/ Sleep
    \/ s4_heart_beat_task

SpecHeartRate == Init /\ [][NextHeartRate]_vars

\* C11: get_heart_rate returns the value of the latest update_heart_rate call when
\* that call was made less than HRM_TIMEOUT seconds ago, and 0 otherwise, also
\* when no update has been made.
C11_FreshOrZero ==
    last = "get_heart_rate" =>
        hr[1] = IF hist.hr_update # <<>>
                   /\ now - hist.hr_update[1].at < HRM_TIMEOUT * 1000
                THEN hist.hr_update[1].hr
                ELSE 0

\* a reading that has gone stale is withheld
C11_Witness ==
    /\ last = "get_heart_rate"
    /\ hist.hr_update # <<>>
    /\ hist.hr_update[1].hr = 75
    /\ now - hist.hr_update[1].at >= HRM_TIMEOUT * 1000
    /\ hr = <<0>>


\* the payload holds the flags byte and the whole heart-rate value
HasHeartRateValue(data) ==
    /\ Len(data) >= 2
    /\ Bit(data[1], 0) => Len(data) >= 3

FusionPayloads == {<<0, 75>>}

HeartRateEvents == {Ev("heart_rate", 0), Ev("heart_rate", 60)}

NextFusion ==
    \/ handle_heart_rate(FusionPayloads)
    \/ Sleep
    \/ ReadLine(HeartRateEvents)
    \/ pulse_monitor
    \/ on_heart_rate
    \/ \E c \in Compilers : compile_metrics(c)
    \/ \E c \in Compilers : inject_heart_rate(c)

SpecFusion == Init /\ [][NextFusion]_vars

\* what caller k's dict holds after the step
ContentsAfter(k) ==
    IF held'[k][1].id = "WRValues" THEN WRValues' ELSE held'[k][1].dict

\* C12: inject_heart_rate overwrites heart_rate_bpm only when it is 0 and the
\* monitor returns a non-zero reading, which it then stores; a non-zero value from
\* the rower is kept, and no other field of the dict changes.
C12_InjectFrame ==
    [][last' = "inject_heart_rate" =>
        LET c == hist'.compiler
            old == Contents(held[c][1])
            new == ContentsAfter(c)
            ext_hr == get_heart_rate(hrm, now)
        IN  /\ \A f \in DOMAIN old \ {"heart_rate_bpm"} : new[f] = old[f]
            /\ new.heart_rate_bpm =
                  IF old.heart_rate_bpm = 0 /\ ext_hr # 0 THEN ext_hr
                  ELSE old.heart_rate_bpm]_vars

\* the BLE reading has filled in a dict in which the rower reported no heart rate
C12_Witness ==
    /\ last = "inject_heart_rate"
    /\ held[hist.compiler][1].dict.heart_rate_bpm = 75
    /\ values[1].heart_rate_bpm = 0

\* C13: with the monitor not updated in between, a second inject_heart_rate on the
\* same dict leaves it as the first one left it.
C13_InjectIdempotent ==
    [][(last' = "inject_heart_rate" /\ held[hist'.compiler][1].injected >= 1) =>
        ContentsAfter(hist'.compiler) = Contents(held[hist'.compiler][1])]_vars

\* a dict filled in by the first call has gone through a second call
C13_Witness ==
    /\ last = "inject_heart_rate"
    /\ held[hist.compiler][1].injected = 2
    /\ held[hist.compiler][1].dict.heart_rate_bpm = 75

\* C17: a write into a dict returned by get_WRValues changes neither the
\* aggregator's snapshots nor a dict returned by another call.
C17_ReturnsCopy ==
    [][last' = "inject_heart_rate" =>
        /\ WRValues' = WRValues
        /\ WRValues_standstill' = WRValues_standstill
        /\ \A k \in Compilers \ {hist'.compiler} :
              held[k] # <<>> =>
                 /\ held'[k] # <<>>
                 /\ ContentsAfter(k) = Contents(held[k][1])]_vars

\* one caller's dict has been overwritten while the live snapshot and the other
\* caller's dict still read 0
C17_Witness ==
    /\ last = "inject_heart_rate"
    /\ \E c \in Compilers, k \in Compilers :
          /\ c # k
          /\ hist.compiler = c
          /\ held[c][1].dict.heart_rate_bpm = 75
          /\ held[k] # <<>>
          /\ held[k][1].dict.heart_rate_bpm = 0
          /\ held[k][1].id # held[c][1].id
          /\ WRValues.heart_rate_bpm = 0


(***************************************************************************)
(* The serial codec (s4if.py).  A line or a command is the sequence of its *)
(* characters; a memory address is three characters.                       *)
(***************************************************************************)
\* MEMORY_MAP as a set of entries, each carrying its key as `address`; the defaults
\* of meta.get(...) are filled in
MEMORY_MAP ==
   {[address |-> <<"0", "0", "D">>, type |-> "screen_mode", size |-> "single", base |-> 16, endian |-> "big",
     frequency |-> "low", category |-> "state", exclude_from_poll_loop |-> FALSE],
    [address |-> <<"0", "0", "E">>, type |-> "screen_sub_mode", size |-> "single", base |-> 16, endian |-> "big",
     frequency |-> "low", category |-> "state", exclude_from_poll_loop |-> FALSE],
    [address |-> <<"0", "0", "F">>, type |-> "intervals_remaining", size |-> "single", base |-> 16, endian |-> "big",
     frequency |-> "low", category |-> "state", exclude_from_poll_loop |-> FALSE],
    [address |-> <<"0", "3", "E">>, type |-> "workout_flags", size |-> "single", base |-> 16, endian |-> "big",
     frequency |-> "low", category |-> "state", exclude_from_poll_loop |-> FALSE],
    [address |-> <<"0", "3", "F">>, type |-> "function_flags", size |-> "single", base |-> 16, endian |-> "big",
     frequency |-> "low", category |-> "state", exclude_from_poll_loop |-> FALSE],
    [address |-> <<"0", "4", "1">>, type |-> "intensity2_disp_flags", size |-> "single", base |-> 16, endian |-> "big",
     frequency |-> "low", category |-> "intensity", exclude_from_poll_loop |-> FALSE],
    [address |-> <<"0", "4", "2">>, type |-> "distance1_disp_flags", size |-> "single", base |-> 16, endian |-> "big",
     frequency |-> "low", category |-> "distance", exclude_from_poll_loop |-> FALSE],
    [address |-> <<"0", "4", "4">>, type |-> "program_disp_flags", size |-> "single", base |-> 16, endian |-> "big",
     frequency |-> "low", category |-> "program", exclude_from_poll_loop |-> TRUE],
    [address |-> <<"0", "4", "7">>, type |-> "misc_disp_flags", size |-> "single", base |-> 16, endian |-> "big",
     frequency |-> "low", category |-> "state", exclude_from_poll_loop |-> TRUE],
    [address |-> <<"0", "5", "5">>, type |-> "total_distance", size |-> "double", base |-> 16, endian |-> "big",
     frequency |-> "high", category |-> "rowing", exclude_from_poll_loop |-> FALSE],
    [address |-> <<"0", "5", "4">>, type |-> "total_distance_dec", size |-> "single", base |-> 16, endian |-> "big",
     frequency |-> "high", category |-> "rowing", exclude_from_poll_loop |-> FALSE],
    [address |-> <<"0", "8", "8">>, type |-> "watts", size |-> "double", base |-> 16, endian |-> "big",
     frequency |-> "high", category |-> "rowing", exclude_from_poll_loop |-> FALSE],
    [address |-> <<"0", "8", "A">>, type |-> "total_calories", size |-> "triple", base |-> 16, endian |-> "big",
     frequency |-> "high", category |-> "rowing", exclude_from_poll_loop |-> FALSE],
    [address |-> <<"0", "9", "0">>, type |-> "zone_hr_upper", size |-> "single", base |-> 16, endian |-> "big",
     frequency |-> "low", category |-> "zone", exclude_from_poll_loop |-> FALSE],
    [address |-> <<"0", "9", "1">>, type |-> "zone_hr_lower", size |-> "single", base |-> 16, endian |-> "big",
     frequency |-> "low", category |-> "zone", exclude_from_poll_loop |-> FALSE],
    [address |-> <<"0", "9", "2">>, type |-> "zone_int_mps_upper", size |-> "double", base |-> 16, endian |-> "little",
     frequency |-> "low", category |-> "zone", exclude_from_poll_loop |-> FALSE],
    [address |-> <<"0", "9", "4">>, type |-> "zone_int_mps_lower", size |-> "double", base |-> 16, endian |-> "little",
     frequency |-> "low", category |-> "zone", exclude_from_poll_loop |-> FALSE],
    [address |-> <<"0", "9", "6">>, type |-> "zone_int_mph_upper", size |-> "double", base |-> 16, endian |-> "little",
     frequency |-> "low", category |-> "zone", exclude_from_poll_loop |-> FALSE],
    [address |-> <<"0", "9", "8">>, type |-> "zone_int_mph_lower", size |-> "double", base |-> 16, endian |-> "little",
     frequency |-> "low", category |-> "zone", exclude_from_poll_loop |-> FALSE],
    [address |-> <<"0", "9", "A">>, type |-> "zone_int_500m_upper", size |-> "double", base |-> 16, endian |-> "little",
     frequency |-> "low", category |-> "zone", exclude_from_poll_loop |-> FALSE],
    [address |-> <<"0", "9", "C">>, type |-> "zone_int_500m_lower", size |-> "double", base |-> 16, endian |-> "little",
     frequency |-> "low", category |-> "zone", exclude_from_poll_loop |-> FALSE],
    [address |-> <<"0", "9", "E">>, type |-> "zone_int_2km_upper", size |-> "double", base |-> 16, endian |-> "little",
     frequency |-> "low", category |-> "zone", exclude_from_poll_loop |-> FALSE],
    [address |-> <<"0", "A", "0">>, type |-> "zone_int_2km_lower", size |-> "double", base |-> 16, endian |-> "little",
     frequency |-> "low", category |-> "zone", exclude_from_poll_loop |-> FALSE],
    [address |-> <<"0", "A", "2">>, type |-> "zone_sr_upper", size |-> "single", base |-> 16, endian |-> "big",
     frequency |-> "low", category |-> "zone", exclude_from_poll_loop |-> FALSE],
    [address |-> <<"0", "A", "3">>, type |-> "zone_sr_lower", size |-> "single", base |-> 16, endian |-> "big",
     frequency |-> "low", category |-> "zone", exclude_from_poll_loop |-> FALSE],
    [address |-> <<"0", "A", "9">>, type |-> "tank_volume", size |-> "single", base |-> 16, endian |-> "big",
     frequency |-> "low", category |-> "miscellaneous", exclude_from_poll_loop |-> FALSE],
    [address |-> <<"1", "4", "0">>, type |-> "stroke_count", size |-> "double", base |-> 16, endian |-> "big",
     frequency |-> "high", category |-> "rowing", exclude_from_poll_loop |-> FALSE],
    [address |-> <<"1", "4", "2">>, type |-> "avg_time_stroke_whole", size |-> "single", base |-> 16, endian |-> "big",
     frequency |-> "high", category |-> "rowing", exclude_from_poll_loop |-> FALSE],
    [address |-> <<"1", "4", "3">>, type |-> "avg_time_stroke_pull", size |-> "single", base |-> 16, endian |-> "big",
     frequency |-> "high", category |-> "rowing", exclude_from_poll_loop |-> FALSE],
    [address |-> <<"1", "4", "A">>, type |-> "avg_distance_cmps", size |-> "double", base |-> 16, endian |-> "big",
     frequency |-> "high", category |-> "rowing", exclude_from_poll_loop |-> FALSE],
    [address |-> <<"1", "A", "0">>, type |-> "heart_rate", size |-> "single", base |-> 16, endian |-> "big",
     frequency |-> "high", category |-> "rowing", exclude_from_poll_loop |-> FALSE],
    [address |-> <<"1", "A", "5">>, type |-> "500m_pace", size |-> "double", base |-> 16, endian |-> "little",
     frequency |-> "high", category |-> "rowing", exclude_from_poll_loop |-> TRUE],
    [address |-> <<"1", "A", "9">>, type |-> "stroke_rate", size |-> "single", base |-> 16, endian |-> "big",
     frequency |-> "high", category |-> "rowing", exclude_from_poll_loop |-> TRUE],
    [address |-> <<"1", "E", "3">>, type |-> "display_hr", size |-> "single", base |-> 10, endian |-> "big",
     frequency |-> "high", category |-> "rowing", exclude_from_poll_loop |-> FALSE],
    [address |-> <<"1", "E", "2">>, type |-> "display_min", size |-> "single", base |-> 10, endian |-> "big",
     frequency |-> "high", category |-> "rowing", exclude_from_poll_loop |-> FALSE],
    [address |-> <<"1", "E", "1">>, type |-> "display_sec", size |-> "single", base |-> 10, endian |-> "big",
     frequency |-> "high", category |-> "rowing", exclude_from_poll_loop |-> FALSE],
    [address |-> <<"1", "E", "0">>, type |-> "display_sec_dec", size |-> "single", base |-> 10, endian |-> "big",
     frequency |-> "high", category |-> "rowing", exclude_from_poll_loop |-> FALSE],
    [address |-> <<"1", "E", "8">>, type |-> "workout_total_time", size |-> "double", base |-> 16, endian |-> "big",
     frequency |-> "low", category |-> "workout_stat", exclude_from_poll_loop |-> FALSE],
    [address |-> <<"1", "E", "A">>, type |-> "workout_total_metres", size |-> "double", base |-> 16, endian |-> "big",
     frequency |-> "low", category |-> "workout_stat", exclude_from_poll_loop |-> FALSE],
    [address |-> <<"1", "E", "C">>, type |-> "workout_total_strokes", size |-> "double", base |-> 16, endian |-> "big",
     frequency |-> "low", category |-> "workout_stat", exclude_from_poll_loop |-> FALSE],
    [address |-> <<"1", "B", "0">>, type |-> "workout_work1", size |-> "double", base |-> 16, endian |-> "big",
     frequency |-> "low", category |-> "workout", exclude_from_poll_loop |-> FALSE],
    [address |-> <<"1", "B", "2">>, type |-> "workout_rest1", size |-> "double", base |-> 16, endian |-> "big",
     frequency |-> "low", category |-> "workout", exclude_from_poll_loop |-> FALSE],
    [address |-> <<"1", "B", "4">>, type |-> "workout_work2", size |-> "double", base |-> 16, endian |-> "big",
     frequency |-> "low", category |-> "workout", exclude_from_poll_loop |-> FALSE],
    [address |-> <<"1", "B", "6">>, type |-> "workout_rest2", size |-> "double", base |-> 16, endian |-> "big",
     frequency |-> "low", category |-> "workout", exclude_from_poll_loop |-> FALSE],
    [address |-> <<"1", "B", "8">>, type |-> "workout_work3", size |-> "double", base |-> 16, endian |-> "big",
     frequency |-> "low", category |-> "workout", exclude_from_poll_loop |-> FALSE],
    [address |-> <<"1", "B", "A">>, type |-> "workout_rest3", size |-> "double", base |-> 16, endian |-> "big",
     frequency |-> "low", category |-> "workout", exclude_from_poll_loop |-> FALSE],
    [address |-> <<"1", "B", "C">>, type |-> "workout_work4", size |-> "double", base |-> 16, endian |-> "big",
     frequency |-> "low", category |-> "workout", exclude_from_poll_loop |-> FALSE],
    [address |-> <<"1", "B", "E">>, type |-> "workout_rest4", size |-> "double", base |-> 16, endian |-> "big",
     frequency |-> "low", category |-> "workout", exclude_from_poll_loop |-> FALSE],
    [address |-> <<"1", "C", "0">>, type |-> "workout_work5", size |-> "double", base |-> 16, endian |-> "big",
     frequency |-> "low", category |-> "workout", exclude_from_poll_loop |-> FALSE],
    [address |-> <<"1", "C", "2">>, type |-> "workout_rest5", size |-> "double", base |-> 16, endian |-> "big",
     frequency |-> "low", category |-> "workout", exclude_from_poll_loop |-> FALSE],
    [address |-> <<"1", "C", "4">>, type |-> "workout_work6", size |-> "double", base |-> 16, endian |-> "big",
     frequency |-> "low", category |-> "workout", exclude_from_poll_loop |-> FALSE],
    [address |-> <<"1", "C", "6">>, type |-> "workout_rest6", size |-> "double", base |-> 16, endian |-> "big",
     frequency |-> "low", category |-> "workout", exclude_from_poll_loop |-> FALSE],
    [address |-> <<"1", "C", "8">>, type |-> "workout_work7", size |-> "double", base |-> 16, endian |-> "big",
     frequency |-> "low", category |-> "workout", exclude_from_poll_loop |-> FALSE],
    [address |-> <<"1", "C", "A">>, type |-> "workout_rest7", size |-> "double", base |-> 16, endian |-> "big",
     frequency |-> "low", category |-> "workout", exclude_from_poll_loop |-> FALSE],
    [address |-> <<"1", "C", "C">>, type |-> "workout_work8", size |-> "double", base |-> 16, endian |-> "big",
     frequency |-> "low", category |-> "workout", exclude_from_poll_loop |-> FALSE],
    [address |-> <<"1", "C", "E">>, type |-> "workout_rest8", size |-> "double", base |-> 16, endian |-> "big",
     frequency |-> "low", category |-> "workout", exclude_from_poll_loop |-> FALSE],
    [address |-> <<"1", "D", "0">>, type |-> "workout_work9", size |-> "double", base |-> 16, endian |-> "big",
     frequency |-> "low", category |-> "workout", exclude_from_poll_loop |-> FALSE],
    [address |-> <<"1", "D", "9">>, type |-> "workout_intervals", size |-> "single", base |-> 16, endian |-> "big",
     frequency |-> "low", category |-> "workout", exclude_from_poll_loop |-> FALSE]}

\* the keys of MEMORY_MAP
Addresses == {memory.address : memory \in MEMORY_MAP}

\* MEMORY_MAP[address]
MemoryAt(address) == CHOOSE memory \in MEMORY_MAP : memory.address = address

\* a SIZE_MAP whose triple registers share the prefixes of the double ones
SIZE_MAP_sharedPrefix ==
    [size \in {"single", "double", "triple"} |->
        [request |-> <<"I", "R", IF size = "single" THEN "S" ELSE "D">>,
         response |-> <<"I", "D", IF size = "single" THEN "S" ELSE "D">>]]

SIZE_MAP ==
    [single |-> [request |-> <<"I", "R", "S">>, response |-> <<"I", "D", "S">>],
     double |-> [request |-> <<"I", "R", "D">>, response |-> <<"I", "D", "D">>],
     triple |-> [request |-> <<"I", "R", "T">>, response |-> <<"I", "D", "T">>]]

\* SIZE_PARSE_MAP: the slice of the command that holds the value
SIZE_PARSE_MAP == [single |-> <<6, 8>>, double |-> <<6, 10>>, triple |-> <<6, 12>>]

Whitespace == {" ", "\r", "\n"}

\* a byte that is not valid UTF-8
Undecodable == "\\xff"

\* bytes.strip() and str.strip()
RECURSIVE strip(_)
strip(s) ==
    IF s = <<>> THEN s
    ELSE IF Head(s) \in Whitespace THEN strip(Tail(s))
    ELSE IF s[Len(s)] \in Whitespace THEN strip(SubSeq(s, 1, Len(s) - 1))
    ELSE s

\* the digits int() knows, in both cases
DigitValue ==
    [c \in {"0", "1", "2", "3", "4", "5", "6", "7", "8", "9", "A", "B", "C", "D", "E", "F",
            "a", "b", "c", "d", "e", "f"} |->
        CASE c = "0" -> 0 [] c = "1" -> 1 [] c = "2" -> 2 [] c = "3" -> 3 [] c = "4" -> 4
          [] c = "5" -> 5 [] c = "6" -> 6 [] c = "7" -> 7 [] c = "8" -> 8 [] c = "9" -> 9
          [] c \in {"A", "a"} -> 10 [] c \in {"B", "b"} -> 11 [] c \in {"C", "c"} -> 12
          [] c \in {"D", "d"} -> 13 [] c \in {"E", "e"} -> 14 [] c \in {"F", "f"} -> 15]

\* int(s, base) does not raise ValueError: surrounding whitespace is allowed, the
\* rest must be one or more digits of the base
IsInt(s, base) ==
    LET t == strip(s)
    IN  /\ t # <<>>
        /\ \A i \in DOMAIN t : t[i] \in DOMAIN DigitValue /\ DigitValue[t[i]] < base

RECURSIVE DigitsValue(_, _)
DigitsValue(t, base) ==
    IF t = <<>> THEN 0
    ELSE DigitsValue(SubSeq(t, 1, Len(t) - 1), base) * base + DigitValue[t[Len(t)]]

\* int(s, base) when it does not raise
int(s, base) == DigitsValue(strip(s), base)

StartsWith(s, prefix) == Len(s) >= Len(prefix) /\ SubSeq(s, 1, Len(prefix)) = prefix


Chars(s) == {s[i] : i \in DOMAIN s}

\* S4Event.build with the raw line left at its default of None
build_noRaw(type, value, raw) == <<[type |-> type, value |-> value, raw |-> <<>>]>>

\* S4Event.build(type, value, raw); the timestamp is left to Stamp; an Optional
\* event is a sequence of no or one event
build(type, value, raw) == <<[type |-> type, value |-> value, raw |-> raw]>>

\* the little-endian branch of read_reply without the byte swap
swap_bytes_none(value_str, size, value) == <<value>>

\* the little-endian branch of read_reply: <<>> when a part is not a number
swap_bytes(value_str, size, value) ==
    IF size = "double" /\ Len(value_str) = 4
    THEN IF IsInt(Slice(value_str, 0, 2), 16) /\ IsInt(Slice(value_str, 2, 4), 16)
         THEN <<int(Slice(value_str, 2, 4), 16) * 256 + int(Slice(value_str, 0, 2), 16)>>
         ELSE <<>>
    ELSE IF size = "triple" /\ Len(value_str) = 6
    THEN IF /\ IsInt(Slice(value_str, 0, 2), 16)
            /\ IsInt(Slice(value_str, 2, 4), 16)
            /\ IsInt(Slice(value_str, 4, 6), 16)
         THEN <<int(Slice(value_str, 4, 6), 16) * 65536
                  + int(Slice(value_str, 2, 4), 16) * 256
                  + int(Slice(value_str, 0, 2), 16)>>
         ELSE <<>>
    ELSE <<value>>

read_reply(cmd) ==
    IF Len(cmd) < 6 THEN <<>>
    ELSE LET address == Slice(cmd, 3, 6)
         IN  IF address \notin Addresses THEN <<>>
             ELSE LET memory == MemoryAt(address)
                      size == memory.size
                      value_str == Slice(cmd, SIZE_PARSE_MAP[size][1], SIZE_PARSE_MAP[size][2])
                  IN  IF ~IsInt(value_str, memory.base) THEN <<>>
                      ELSE LET value == int(value_str, memory.base)
                               swapped == IF memory.endian = "little"
                                          THEN swap_bytes(value_str, size, value)
                                          ELSE <<value>>
                           IN  IF swapped = <<>> THEN <<>>
                               ELSE build(memory.type, swapped[1], cmd)

\* S4Event.parse_line(line)
parse_line(bytes) ==
    LET cmd == strip(bytes)
    IN  IF Undecodable \in Chars(cmd) THEN <<>>
        ELSE IF cmd = <<"S", "S">> THEN build("stroke_start", NoneInt, cmd)
        ELSE IF cmd = <<"S", "E">> THEN build("stroke_end", NoneInt, cmd)
        ELSE IF cmd = <<"O", "K">> THEN build("ok", NoneInt, cmd)
        ELSE IF StartsWith(cmd, <<"I", "V">>) THEN build("model", NoneInt, cmd)
        ELSE IF StartsWith(cmd, <<"I", "D">>) THEN read_reply(cmd)
        ELSE IF cmd = <<"P", "I", "N", "G">> THEN build("ping", NoneInt, cmd)
        ELSE IF StartsWith(cmd, <<"P">>) THEN build("pulse", NoneInt, cmd)
        ELSE IF cmd = <<"E", "R", "R", "O", "R">> THEN build("error", NoneInt, cmd)
        ELSE IF cmd = <<"_", "W", "R", "_">> THEN build("wr", NoneInt, cmd)
        ELSE IF cmd = <<"A", "K", "R">> THEN build("reset", NoneInt, cmd)
        ELSE <<>>

\* str.upper() on the characters of a command
upper(raw) ==
    [i \in DOMAIN raw |->
        CASE raw[i] = "a" -> "A" [] raw[i] = "b" -> "B" [] raw[i] = "c" -> "C"
          [] raw[i] = "d" -> "D" [] raw[i] = "e" -> "E" [] raw[i] = "f" -> "F"
          [] OTHER -> raw[i]]

\* Rower.write(raw): the bytes put on the serial line
write(raw) == upper(raw) \o <<"\r", "\n">>

\* the command Rower.request_address(address) writes
request_command(address) == SIZE_MAP[MemoryAt(address).size].request \o address

\* one pass of the inner loop of _start_requesting(freq): the next address of
\* that frequency which is neither excluded nor in a switched-off category is
\* requested
_start_requesting(freq) ==
    /\ \E memory \in MEMORY_MAP :
          /\ memory.frequency = freq
          /\ ~memory.exclude_from_poll_loop
          /\ request_categories[memory.category] # FALSE
          /\ written' = write(request_command(memory.address))
    /\ last' = "request_address"
    /\ UNCHANGED <<aggVars, progVars, now, callbacks, script, requested, hrm, hr, held, line,
                   parsed, fmcp, rower, pending, todo, values, hist>>

\* the reader takes one of the lines L off the serial port and parses it
_start_capturing(L) ==
    /\ \E l \in L :
          /\ line' = l
          /\ parsed' = parse_line(l)
    /\ last' = "parse_line"
    /\ UNCHANGED <<aggVars, progVars, now, callbacks, script, requested, hrm, hr, held, written,
                   fmcp, rower, pending, todo, values, hist>>

\* the lines the S4 sends: memory responses for a sample of registers (a
\* little-endian double, two big-endian doubles, a single, a decimal single,
\* the triple and an address that is not configured), with whole, short, spaced
\* and malformed values, and the other packets
SampleAddresses ==
    {<<"1", "A", "5">>, <<"0", "5", "5">>, <<"1", "4", "0">>, <<"0", "0", "D">>,
     <<"1", "E", "1">>, <<"0", "8", "A">>, <<"F", "F", "F">>}

\* the prefix the S4 gives the response for an address
ResponsePrefix(address) ==
    IF address \in Addresses THEN SIZE_MAP[MemoryAt(address).size].response
    ELSE <<"I", "D", "S">>

ValueDigits ==
    {<<"7", "C", "0", "0">>, <<"0", "0", "7", "C">>, <<"7", "C">>, <<"7", "C", "0">>,
     <<" ", "7", "C", "0", "0">>, <<" ", " ", "7", "C">>, <<"1", "2", "3", "4", "5", "6">>,
     <<"5", "9">>, <<"Z", "Z">>, <<"7", "c", "0", "0">>, <<>>}

LineEnds == {<<>>, <<"\r", "\n">>}

OtherLines ==
    {<<"S", "S">>, <<"S", "E">>, <<"O", "K">>, <<"P", "I", "N", "G">>, <<"P", "0", "1">>,
     <<"A", "K", "R">>, <<"E", "R", "R", "O", "R">>, <<"_", "W", "R", "_">>,
     <<"I", "V", "4", "0", "2", "1", "0">>, <<"I", "D">>, <<"X">>, <<Undecodable>>, <<>>,
     <<"I", "D", "S", "1", "A", "5", "7", "C", "0", "0">>,
     <<"I", "D", "T", "0", "5", "5", "0", "0", "7", "C">>}

Lines ==
    {ResponsePrefix(a) \o a \o v \o e : a \in SampleAddresses, v \in ValueDigits, e \in LineEnds}
      \cup {o \o e : o \in OtherLines, e \in LineEnds}

Frequencies == {"high", "low"}

NextCodec ==
    \/ \E freq \in Frequencies : _start_requesting(freq)
    \/ _start_capturing(Lines)

SpecCodec == Init /\ [][NextCodec]_vars


\* the line just parsed is a whole response for a double register: the prefix,
\* a configured address and four hexadecimal digits
WholeDouble ==
    LET cmd == strip(line)
    IN  /\ last = "parse_line"
        /\ Len(cmd) >= 10
        /\ StartsWith(cmd, <<"I", "D">>)
        /\ Slice(cmd, 3, 6) \in Addresses
        /\ MemoryAt(Slice(cmd, 3, 6)).size = "double"
        /\ \A i \in 7..10 : cmd[i] \in DOMAIN DigitValue

\* the value of two hexadecimal digits
Byte(hi, lo) == DigitValue[hi] * 16 + DigitValue[lo]

\* C15: a whole response for a double register decodes to its value digits
\* taken as two bytes, the second byte the high one when MEMORY_MAP declares the
\* register little-endian and the first byte the high one otherwise; the
\* response IDD1A57C00 decodes to 124
C15_LittleEndianDecode ==
    LET cmd == strip(line)
    IN  /\ WholeDouble =>
              /\ parsed # <<>>
              /\ parsed[1].type = MemoryAt(Slice(cmd, 3, 6)).type
              /\ parsed[1].value =
                    IF MemoryAt(Slice(cmd, 3, 6)).endian = "little"
                    THEN Byte(cmd[9], cmd[10]) * 256 + Byte(cmd[7], cmd[8])
                    ELSE Byte(cmd[7], cmd[8]) * 256 + Byte(cmd[9], cmd[10])
        /\ (last = "parse_line"
              /\ cmd = <<"I", "D", "D", "1", "A", "5", "7", "C", "0", "0">>) =>
              parsed = build("500m_pace", 124, cmd)

C15_Witness ==
    /\ WholeDouble
    /\ strip(line) = <<"I", "D", "D", "1", "A", "5", "7", "C", "0", "0">>
    /\ parsed # <<>>
    /\ parsed[1].value = 124

\* the types of the memory-read events
MemoryTypes == {memory.type : memory \in MEMORY_MAP}

Readings(bytes) ==
    {sa \in (DOMAIN SIZE_MAP) \X Addresses : bytes = write(SIZE_MAP[sa[1]].request \o sa[2])}

\* C18: every MEMORY_MAP entry names a size that SIZE_MAP and SIZE_PARSE_MAP
\* define, the request prefixes and the response prefixes of SIZE_MAP are
\* pairwise distinct, and every read command written is "IR", a size letter,
\* the three characters of the address and the line end, and is the command of
\* exactly one size and address, the size being that of the address's entry
C18_UnambiguousCommand ==
    /\ \A memory \in MEMORY_MAP :
          memory.size \in DOMAIN SIZE_MAP /\ memory.size \in DOMAIN SIZE_PARSE_MAP
    /\ \A s1, s2 \in DOMAIN SIZE_MAP :
          s1 # s2 => /\ SIZE_MAP[s1].request # SIZE_MAP[s2].request
                     /\ SIZE_MAP[s1].response # SIZE_MAP[s2].response
    /\ last = "request_address" =>
          /\ Len(written) = 8
          /\ Slice(written, 0, 2) = <<"I", "R">>
          /\ Slice(written, 3, 6) \in Addresses
          /\ Slice(written, 6, 8) = <<"\r", "\n">>
          /\ Readings(written) =
                {<<MemoryAt(Slice(written, 3, 6)).size, Slice(written, 3, 6)>>}

C18_Witness ==
    /\ last = "request_address"
    /\ written = <<"I", "R", "T", "0", "8", "A", "\r", "\n">>


(***************************************************************************)
(* The Fitness Machine Control Point (ble_standard_services.py).  `fmcp`   *)
(* holds the value last written and the response indicated for that write  *)
(* (<<>>: none).                                                           *)
(***************************************************************************)
\* the values of the enum FTMControlOpCode: 0x00 to 0x14 and 0x80
FTMControlOpCode == (0..20) \cup {128}

\* self.command_handler: set to None in __init__ and assigned nowhere in the
\* repository
command_handler == "None"

_build_response(opcode, result_code, param) == <<128, opcode, result_code>> \o param

\* the response WriteValue indicates for a value of at least one byte
Response(value) ==
    LET opcode_value == value[1]
    IN  IF opcode_value \notin FTMControlOpCode
        THEN _build_response(opcode_value, 2, <<>>)
        ELSE \* no command handler: result_code, response_param = 0x01, []
             _build_response(opcode_value, 1, <<>>)

\* WriteValue(value, options) for one of the values V; value[0] of an empty
\* value raises after self.value is set, and nothing is indicated
WriteValue(V) ==
    /\ command_handler = "None"
    /\ \E value \in V :
          fmcp' = [value |-> value,
                   response |-> IF value = <<>> THEN <<>> ELSE Response(value)]
    /\ last' = "WriteValue"
    /\ UNCHANGED <<aggVars, progVars, now, callbacks, script, requested, hrm, hr, held, codecVars,
                   rower, pending, todo, values, hist>>

\* every opcode byte, alone or followed by a parameter byte, and the empty write
Written == {<<>>} \cup {<<opcode>> : opcode \in 0..255} \cup {<<opcode, 1>> : opcode \in 0..255}

NextControlPoint == WriteValue(Written)

SpecControlPoint == Init /\ [][NextControlPoint]_vars

\* C16: after a write whose opcode is neither 0x00 nor 0x01 the response is
\* 0x80, the opcode, 0x02, and every response is 0x80, the opcode written and a
\* result code, followed by any parameters
C16_OthersNotSupported ==
    (last = "WriteValue" /\ fmcp.value # <<>>) =>
        /\ Len(fmcp.response) >= 3
        /\ fmcp.response[1] = 128
        /\ fmcp.response[2] = fmcp.value[1]
        /\ fmcp.value[1] \notin {0, 1} => fmcp.response = <<128, fmcp.value[1], 2>>


(***************************************************************************)
(* Strokes and their maximum power (Scenario C)                            *)
(***************************************************************************)
\* the largest of the readings of a stroke, None counting as 0
RECURSIVE MaxReading(_)
MaxReading(readings) ==
    IF readings = <<>> THEN 0
    ELSE Max(OrZero(Head(readings)), MaxReading(Tail(readings)))

\* C20: after a watts reading in the drive, stroke_max_power is the largest of
\* the readings received since the latest stroke_start (hist.stroke_watts): no
\* reading of another stroke is part of it
C20_MaxOfOwnStroke ==
    (last = "_handle_watts" /\ rs.drive_phase /\ hist.stroke_watts # <<>>) =>
        OrZero(rs.stroke_max_power) = MaxReading(hist.stroke_watts)

(***************************************************************************)
(* Backwards distance readings                                             *)
(***************************************************************************)
\* C30: a total_distance event whose value is lower than the published
\* total_distance_m leaves the published total_distance_m at its prior value
C30_BackwardsDistanceClamped ==
    [][(last' = "_handle_total_distance"
          /\ pending[1].value < WRValues.total_distance_m) =>
        WRValues'.total_distance_m = WRValues.total_distance_m]_vars

(***************************************************************************)
(* Workout flags, units and publication (SpecWorkout)                      *)
(***************************************************************************)
\* the workout bits of a flags byte are its upper four bits
WorkoutBits(flags) == (flags % 256) \div 16

\* C28: a workout_flags event with a value discards the published workout, resets
\* the workout builder (no targets, no rests, no interval count, the new flags
\* stored) and enables the workout and distance categories when no flags were
\* stored or the workout bits differ from the stored ones; otherwise the builder,
\* the published workout and the two categories are unchanged
C28_ResetIffWorkoutBitsChanged ==
    [][(last' = "_handle_workout_flags" /\ pending[1].value # NoneInt) =>
        IF \/ workout_builder.workout_flags = NoneInt
           \/ WorkoutBits(workout_builder.workout_flags) # WorkoutBits(pending[1].value)
        THEN /\ workout' = <<>>
             /\ workout_builder'.workout_flags = pending[1].value
             /\ workout_builder'.work_targets = NewWorkout.work_targets
             /\ workout_builder'.rest_durations = NewWorkout.rest_durations
             /\ workout_builder'.intervals = NoneInt
             /\ request_categories'["workout"] = TRUE
             /\ request_categories'["distance"] = TRUE
        ELSE /\ workout' = workout
             /\ workout_builder' = workout_builder
             /\ request_categories'["workout"] = request_categories["workout"]
             /\ request_categories'["distance"] = request_categories["distance"]]_vars

\* a published single-distance workout has just survived a change of the zone
\* bits only: the stored flags are still the old ones and the categories are
\* still off
C28_Witness ==
    /\ last = "_handle_workout_flags"
    /\ pending # <<>>
    /\ pending[1].value = 17
    /\ workout_builder.workout_flags = 16
    /\ workout # <<>>
    /\ request_categories["workout"] = FALSE

\* C29: when a workout-program event leaves the builder valid, the published
\* workout equals the builder and the workout and distance categories are off;
\* when it leaves the builder not valid, the published workout is what it was
\* before the event, whatever the event changed in the builder
C29_PublishedIsClone ==
    [][last' = "_handle_workout_program" =>
        IF is_valid(workout_builder')
        THEN /\ workout' = <<workout_builder'>>
             /\ request_categories'["workout"] = FALSE
             /\ request_categories'["distance"] = FALSE
        ELSE workout' = workout]_vars

\* a published workout has kept its single work target while a later event added
\* a second one to the builder
C29_Witness ==
    /\ last = "_handle_workout_program"
    /\ workout # <<>>
    /\ DictLen(workout[1].work_targets) = 1
    /\ DictLen(workout_builder.work_targets) = 2
    /\ ~is_valid(workout_builder)

\* the work and rest legs captured in builder w
Legs(w) == DictLen(w.work_targets) + DictLen(w.rest_durations)

\* C22: a workout_intervals event with value v stores max(v - 1, 0) as the
\* builder's interval count, and an interval workout of consistent kind and units
\* is then valid exactly when its captured legs number that count
C22_IntervalCountStored ==
    [][(last' = "_handle_workout_program"
          /\ pending[1].type = "workout_intervals"
          /\ pending[1].value # NoneInt) =>
        /\ workout_builder'.intervals = Max(pending[1].value - 1, 0)
        /\ (workout_builder'.intervals_set = "True"
              /\ workout_builder'.type = "distance"
              /\ workout_builder'.units \in {"metres", "strokes", "miles", "km"}) =>
              (is_valid(workout_builder') <=>
                  Legs(workout_builder') = Max(pending[1].value - 1, 0))]_vars

\* C25: while the stored workout flags select a duration or duration-interval
\* workout, the builder's units are 'secs'
C25_DurationUnitsSecs ==
    (workout_builder.workout_flags # NoneInt /\ is_duration(workout_builder.workout_flags)) =>
        workout_builder.units = "secs"

\* C26: a valid builder that is not an interval workout has exactly one work
\* target and no rest durations
C26_SingleHasOneTargetNoRest ==
    (is_valid(workout_builder) /\ workout_builder.intervals_set # "True") =>
        /\ DictLen(workout_builder.work_targets) = 1
        /\ DictLen(workout_builder.rest_durations) = 0

\* the bits of a distance1_disp_flags value for metres, miles, km and strokes
DistanceUnitBits == {2, 3, 4, 5}

\* C27: a distance1_disp_flags event changes the builder's units only when
\* exactly one of the bits for metres, miles, km and strokes is set in its value
C27_UnitsOnlyOnSingleBit ==
    [][(last' = "_handle_workout_program"
          /\ pending[1].type = "distance1_disp_flags"
          /\ Cardinality({k \in DistanceUnitBits : Bit(pending[1].value, k)}) # 1) =>
        workout_builder'.units = workout_builder.units]_vars

(***************************************************************************)
(* Zone program (s4_workouts.py, s4.py)                                    *)
(***************************************************************************)
\* IntensityMode.get_single_unit_mode: mode & UNIT_MASK (bits 0..5) when it is
\* one bit, else None
get_single_intensity_unit_mode(mode) ==
    LET unit_bits == mode % 64
    IN  IF unit_bits \in {1, 2, 4, 8, 16, 32} THEN unit_bits ELSE NoneInt

\* unit_map.get(selected_unit) of Zone.update_from_event
intensity_unit_map(selected_unit) ==
    CASE selected_unit = 1 -> "mps"
      [] selected_unit = 2 -> "mph"
      [] selected_unit = 4 -> "500m_pace"
      [] selected_unit = 8 -> "2km_pace"
      [] OTHER -> "None"

\* the groups 2 and 3 of re.match(r"zone_(int_)?([a-z0-9]+)_(upper|lower)", type)
\* for the twelve event types of the zone registers
ZoneBoundTypes ==
    [zone_hr_upper |-> <<"hr", "upper">>, zone_hr_lower |-> <<"hr", "lower">>,
     zone_int_mps_upper |-> <<"mps", "upper">>, zone_int_mps_lower |-> <<"mps", "lower">>,
     zone_int_mph_upper |-> <<"mph", "upper">>, zone_int_mph_lower |-> <<"mph", "lower">>,
     zone_int_500m_upper |-> <<"500m", "upper">>, zone_int_500m_lower |-> <<"500m", "lower">>,
     zone_int_2km_upper |-> <<"2km", "upper">>, zone_int_2km_lower |-> <<"2km", "lower">>,
     zone_sr_upper |-> <<"sr", "upper">>, zone_sr_lower |-> <<"sr", "lower">>]

\* label_map.get(short_label)
label_map(short_label) ==
    CASE short_label = "hr" -> "bpm"
      [] short_label = "mps" -> "mps"
      [] short_label = "mph" -> "mph"
      [] short_label = "500m_pace" -> "500m_pace"
      [] short_label = "2km_pace" -> "2km_pace"
      [] short_label = "sr" -> "spm"
      [] OTHER -> "None"

\* Zone.update_from_event; a bound pair is <<lower, upper>>
Zone_update_from_event(z, evt) ==
    IF evt.value = NoneInt THEN z
    ELSE IF evt.type = "intensity2_disp_flags"
    THEN LET selected_unit == get_single_intensity_unit_mode(evt.value)
         IN  IF ~Truthy(selected_unit) THEN z
             ELSE [z EXCEPT !.units = intensity_unit_map(selected_unit)]
    ELSE IF evt.type \notin DOMAIN ZoneBoundTypes THEN z
    ELSE LET key == label_map(ZoneBoundTypes[evt.type][1])
             bound_type == ZoneBoundTypes[evt.type][2]
         IN  IF key \notin DOMAIN z.bounds THEN z
             ELSE IF bound_type = "lower"
             THEN [z EXCEPT !.bounds[key] = <<evt.value, @[2]>>]
             ELSE [z EXCEPT !.bounds[key] = <<@[1], evt.value>>]

\* Zone.is_valid
Zone_is_valid(z) ==
    IF z.type = "None" \/ z.units = "None" THEN FALSE
    ELSE IF z.type = "intensity" /\ z.units \notin {"mps", "mph", "500m_pace", "2km_pace"}
    THEN FALSE
    ELSE \A key \in DOMAIN z.bounds : NoneInt \notin {z.bounds[key][1], z.bounds[key][2]}

\* Zone.reset_bounds_if_flags_changed: the first value of the pair is what it
\* returns; get_zone_type never returns None, and `self._reset_bounds` is not a
\* call, so the bounds are as they were
reset_bounds_if_flags_changed(z, flags) ==
    IF z.zone_trigger_flags # NoneInt /\ z.zone_trigger_flags = flags
    THEN <<FALSE, z>>
    ELSE <<TRUE, [z EXCEPT !.zone_trigger_flags = flags]>>

\* the event types the handler table sends to _handle_zone_program
ZoneProgramTypes == {"intensity2_disp_flags"} \cup DOMAIN ZoneBoundTypes

\* RowerState._handle_zone_program
_handle_zone_program ==
    /\ Calling("on_rower_event")
    /\ pending[1].type \in ZoneProgramTypes
    /\ LET builder == Zone_update_from_event(zone_builder, pending[1])
       IN  /\ zone_builder' = builder
           /\ zone' = IF Zone_is_valid(builder) THEN <<builder>> ELSE zone
           /\ request_categories' =
                 IF Zone_is_valid(builder)
                 THEN set_request_category(request_categories, {"zone", "intensity"}, FALSE)
                 ELSE request_categories
           /\ hist' = [hist EXCEPT !.zone_seen = @ \cup {pending[1].type}]
    /\ Return
    /\ last' = "_handle_zone_program"
    /\ UNCHANGED <<aggVars, workout_builder, workout, envVars, values>>

\* RowerState._handle_misc_disp_flags: the handler the first 'misc_disp_flags'
\* entry of the table names; the second entry replaces it, so it is never called
_handle_misc_disp_flags ==
    /\ Handling("misc_disp_flags")
    /\ IF pending[1].value = NoneInt
       THEN UNCHANGED progVars
       ELSE LET z == reset_bounds_if_flags_changed(zone_builder, pending[1].value)
            IN  /\ zone_builder' = z[2]
                /\ zone' = IF z[1] THEN <<>> ELSE zone
                /\ request_categories' =
                      IF z[1]
                      THEN set_request_category(request_categories, {"zone", "intensity"}, TRUE)
                      ELSE request_categories
                /\ UNCHANGED <<workout_builder, workout>>
    /\ Return
    /\ last' = "_handle_misc_disp_flags"
    /\ UNCHANGED <<aggVars, envVars, values, hist>>

\* 'misc_disp_flags': the entry of the handler table that is in force has no
\* handler function; the event is only logged
on_misc_disp_flags ==
    /\ Handling("misc_disp_flags")
    /\ hist' = [hist EXCEPT !.misc_before = hist.misc_flags,
                            !.misc_flags = pending[1].value]
    /\ Return
    /\ last' = "misc_disp_flags"
    /\ UNCHANGED <<aggVars, progVars, envVars, values>>

\* Scenario Z: an intensity zone is selected, the unit is read, the twelve zone
\* registers are read in the order of MEMORY_MAP, the misc-display register
\* changes, and two bounds are read again
ScenarioZ ==
    <<Ev("workout_flags", 2), Ev("intensity2_disp_flags", 1),
      Ev("misc_disp_flags", 16),
      Ev("zone_hr_upper", 150), Ev("zone_hr_lower", 120),
      Ev("zone_int_mps_upper", 450), Ev("zone_int_mps_lower", 350),
      Ev("zone_int_mph_upper", 100), Ev("zone_int_mph_lower", 80),
      Ev("zone_int_500m_upper", 130), Ev("zone_int_500m_lower", 110),
      Ev("zone_int_2km_upper", 520), Ev("zone_int_2km_lower", 440),
      Ev("zone_sr_upper", 30), Ev("zone_sr_lower", 20),
      Ev("misc_disp_flags", 16), Ev("misc_disp_flags", 48),
      Ev("zone_hr_upper", 160), Ev("zone_hr_lower", 125),
      Ev("workout_flags", 0), Ev("misc_disp_flags", 16),
      Ev("workout_flags", 1), Ev("zone_hr_upper", 160)>>

NextScenarioZ ==
    \/ ReadScripted
    \/ Tick
    \/ pulse_monitor
    \/ _handle_workout_flags
    \/ _handle_zone_program
    \/ on_misc_disp_flags

SpecScenarioZ == InitWith(ScenarioZ) /\ [][NextScenarioZ]_vars

\* the zone kinds
ZoneKinds == {"heart_rate", "intensity", "stroke_rate"}

\* C23: once a zone kind is selected, units are set and, since the bounds were
\* last reset, an event has been handled for each of the twelve zone registers,
\* all six bound pairs of the zone builder are populated and the builder is valid
C23_AllBoundsPopulated ==
    (/\ zone_builder.type \in ZoneKinds
     /\ zone_builder.units # "None"
     /\ DOMAIN ZoneBoundTypes \subseteq hist.zone_seen) =>
        /\ DOMAIN zone_builder.bounds = DOMAIN _reset_bounds
        /\ \A key \in DOMAIN zone_builder.bounds :
              NoneInt \notin {zone_builder.bounds[key][1], zone_builder.bounds[key][2]}
        /\ Zone_is_valid(zone_builder)

\* C24: a misc_disp_flags event whose value differs from the value of the one
\* before, handled while a zone kind is selected, resets every bound pair of the
\* zone builder, discards the published zone and enables the zone and intensity
\* categories; one handled while no zone kind is selected leaves the bounds alone
C24_MiscChangeRebuildsBounds ==
    [][(last' = "misc_disp_flags"
          /\ hist'.misc_before # NoneInt
          /\ hist'.misc_flags # hist'.misc_before) =>
        IF zone_builder.type \in ZoneKinds
        THEN /\ zone_builder'.bounds = _reset_bounds
             /\ zone' = <<>>
             /\ request_categories'["zone"] = TRUE
             /\ request_categories'["intensity"] = TRUE
        ELSE zone_builder'.bounds = zone_builder.bounds]_vars

(***************************************************************************)
(* The speed register 14A and the handler table of on_rower_event          *)
(***************************************************************************)
\* the keys of the handler table of on_rower_event (s4.py 266-341)
handlers ==
    {"error", "screen_sub_mode", "screen_mode", "intervals_remaining", "function_flags",
     "misc_disp_flags", "reset", "stroke_start", "stroke_end", "workout_flags",
     "intensity2_disp_flags", "distance1_disp_flags", "distance2_disp_flags",
     "program_disp_flags", "total_distance", "total_distance_dec", "watts", "total_calories",
     "zone_hr_upper", "zone_hr_lower", "zone_int_mps_upper", "zone_int_mps_lower",
     "zone_int_mph_upper", "zone_int_mph_lower", "zone_int_500m_upper",
     "zone_int_500m_lower", "zone_int_2km_upper", "zone_int_2km_lower", "zone_sr_upper",
     "zone_sr_lower", "tank_volume", "stroke_count", "avg_time_stroke_whole",
     "avg_time_stroke_pull", "instant_avg_speed_cmps", "heart_rate", "500m_pace",
     "display_sec", "display_min", "display_hr", "display_sec_dec", "workout_total_time",
     "workout_total_metres", "workout_total_strokes", "workout_work1", "workout_rest1",
     "workout_work2", "workout_rest2", "workout_work3", "workout_rest3", "workout_work4",
     "workout_rest4", "workout_work5", "workout_rest5", "workout_work6", "workout_rest6",
     "workout_work7", "workout_rest7", "workout_work8", "workout_rest8", "workout_work9",
     "workout_intervals"}

\* s4.py 343-347: no entry of the handler table has the type of the event
on_rower_event_unhandled ==
    /\ Calling("on_rower_event")
    /\ pending[1].type \notin IGNORE_LIST
    /\ pending[1].type \notin handlers
    /\ Return
    /\ last' = "unhandled"
    /\ UNCHANGED <<aggVars, progVars, envVars, values, hist>>

\* s4.py 442: round(50000 / speed)
Pace500m(speed) == Round(50000, speed)

\* RowerState._handle_instant_avg_speed_cmps, the handler of the table's key
\* 'instant_avg_speed_cmps', a type no MEMORY_MAP entry has; _concept2_watts is
\* stored and read nowhere
_handle_instant_avg_speed_cmps ==
    /\ Handling("instant_avg_speed_cmps")
    /\ LET speed == pending[1].value
       IN  WRValues' =
              IF ~Truthy(speed)
              THEN [WRValues EXCEPT
                      !.instant_500m_pace_secs = 0, !.speed_cmps = 0,
                      !.instant_watts = IF USE_CONCEPT2_POWER THEN 0 ELSE @]
              ELSE [WRValues EXCEPT
                      !.speed_cmps = speed,
                      !.instant_500m_pace_secs =
                          IF ~Truthy(rs.pace_500m) THEN Pace500m(speed) ELSE @,
                      !.instant_watts =
                          IF USE_CONCEPT2_POWER THEN Round(28 * speed * speed * speed, 10000000)
                          ELSE @]
    /\ Return
    /\ last' = "_handle_instant_avg_speed_cmps"
    /\ UNCHANGED <<rs, WRValues_standstill, progVars, envVars, values, hist>>

\* the events parse_line makes of the lines L
Parsed(L) ==
    {Ev(parse_line(l)[1].type, parse_line(l)[1].value) : l \in {x \in L : parse_line(x) # <<>>}}

\* responses for register 14A (200 cm/s, 333 cm/s and 0), a pulse and the reset key
SpeedLines ==
    {<<"I", "D", "D", "1", "4", "A", "0", "0", "C", "8">>,
     <<"I", "D", "D", "1", "4", "A", "0", "1", "4", "D">>,
     <<"I", "D", "D", "1", "4", "A", "0", "0", "0", "0">>,
     <<"P", "0", "1">>, <<"A", "K", "R">>}

NextSpeed ==
    \/ ReadLine(Parsed(SpeedLines))
    \/ Tick
    \/ pulse_monitor
    \/ on_rower_event_ignored
    \/ on_rower_event_unhandled
    \/ on_reset
    \/ get_WRValues

SpecSpeed == Init /\ [][NextSpeed]_vars

\* C21: when on_rower_event returns from an event of the type MEMORY_MAP gives
\* register 14A, the published speed_cmps is the event's value and, with no 500 m
\* pace supplied by the rower, instant_500m_pace_secs is round(50000 / speed), or
\* both are 0 for a speed of 0
C21_SpeedRegisterDispatched ==
    [][(Calling("on_rower_event")
          /\ pending[1].type = MemoryAt(<<"1", "4", "A">>).type
          /\ todo' # todo) =>
        IF Truthy(pending[1].value)
        THEN /\ WRValues'.speed_cmps = pending[1].value
             /\ ~Truthy(rs.pace_500m) =>
                   WRValues'.instant_500m_pace_secs = Round(50000, pending[1].value)
        ELSE /\ WRValues'.speed_cmps = 0
             /\ WRValues'.instant_500m_pace_secs = 0]_vars

(***************************************************************************)
(* The stroke durations: avg_time_stroke_whole and avg_time_stroke_pull    *)
(***************************************************************************)
\* a stroke duration of 2400 ms, drive durations of 800 ms and 0
StrokeEvents ==
    {Ev("pulse", NoneInt), Ev("reset", NoneInt), Ev("avg_time_stroke_whole", 96),
     Ev("avg_time_stroke_pull", 32), Ev("avg_time_stroke_pull", 0)}

NextStroke ==
    \/ ReadLine(StrokeEvents)
    \/ Tick
    \/ pulse_monitor
    \/ on_rower_event_ignored
    \/ on_reset
    \/ _handle_avg_time_stroke_whole
    \/ on_avg_time_stroke_pull
    \/ get_WRValues

SpecStroke == Init /\ [][NextStroke]_vars

\* C31: when on_rower_event returns from an avg_time_stroke_pull event, the drive
\* duration is the event's value times 25 ms and, when the stroke and the drive
\* duration are both strictly positive, the published stroke_ratio is
\* (stroke_duration - drive_duration) / (drive_duration * 1.25) of them, in hundredths
C31_RatioRecomputedOnPull ==
    [][(Calling("on_rower_event") /\ pending[1].type = "avg_time_stroke_pull"
          /\ todo' # todo) =>
        /\ rs'.drive_duration = pending[1].value * 25
        /\ (rs'.stroke_duration > 0 /\ rs'.drive_duration > 0) =>
              WRValues'.stroke_ratio =
                  RoundSigned(80 * (rs'.stroke_duration - rs'.drive_duration),
                              rs'.drive_duration)]_vars

(***************************************************************************)
(* The entries of IGNORE_LIST                                              *)
(***************************************************************************)
\* the entries written in the list, one per line (s4.py 80-140); the lines of
\* 'ms_stored' and '500m_pace' have no comma between them, so that Python joins the
\* two literals into the one element 'ms_stored500m_pace' of IGNORE_LIST
IgnoreEntries ==
    {"wr", "ok", "ping", "model", "pulse", "exit", "none", "total_speed_cmps",
     "ms_stored", "500m_pace", "stroke_rate", "workout_limit"}

\* C32: an event whose type is written in IGNORE_LIST is discarded by
\* on_rower_event: the call changes nothing of the aggregator's state
C32_WrittenEntriesDiscarded ==
    [][(Calling("on_rower_event") /\ pending[1].type \in IgnoreEntries
          /\ todo' # todo) =>
        UNCHANGED <<aggVars, progVars>>]_vars

(***************************************************************************)
(* The workout polling categories                                          *)
(***************************************************************************)
\* C39: in every reachable state where no workout is published and the workout
\* builder holds a stored workout_flags value, the workout and the distance request
\* categories are enabled
C39_PollingNotStuckOff ==
    (workout = <<>> /\ workout_builder.workout_flags # NoneInt) =>
        (request_categories["workout"] /\ request_categories["distance"])

\* a program event has been captured into a builder with stored flags that is not
\* valid yet, nothing is published, and the categories are enabled
C39_Witness ==
    /\ last = "_handle_workout_program"
    /\ workout = <<>>
    /\ workout_builder.workout_flags # NoneInt
    /\ workout_builder.work_targets # <<>>
    /\ ~is_valid(workout_builder)
    /\ request_categories["workout"]
    /\ request_categories["distance"]

(***************************************************************************)
(* The order of the callbacks (Rower.notify_callbacks iterates over a set) *)
(***************************************************************************)
\* C37: when the reader starts notifying the callbacks of a stroke_start or a
\* stroke_end event, calling pulse_monitor and then on_rower_event gives the same
\* private state, live snapshot and standstill snapshot as calling on_rower_event
\* and then pulse_monitor
C37_CallbackOrderIrrelevant ==
    (pending # <<>> /\ todo = callbacks
        /\ pending[1].type \in {"stroke_start", "stroke_end"}) =>
      stroke_state(pulse_monitor_state(Aggregate, pending[1], now), pending[1])
        = pulse_monitor_state(stroke_state(Aggregate, pending[1]), pending[1], now)

(***************************************************************************)
(* The Rower's threads (s4if.py 745-1029): the application's thread, which *)
(* calls open, close, reset_rower and request_on_demand, and the daemons.  *)
(* A step is what a thread does between two points at which another       *)
(* thread can see or change what it shares: the stop event, the serial     *)
(* port and the two locks.  What the callbacks make of an event is in the  *)
(* sections on the aggregator, what is written and read in the one on the  *)
(* codec.                                                                  *)
(***************************************************************************)
MaxThreads == 7    \* threads in all: the application's and two generations of daemons
MaxAlive == 5      \* threads alive at a time
MaxCalls == 2      \* calls the application makes
MaxFaults == 1     \* serial operations that fail on an open port

Threads == DOMAIN rower.threads

\* the program point thread t is at
pc(t) == IF rower.threads[t].stack = <<>> THEN "ended" ELSE Head(rower.threads[t].stack)

\* Thread.is_alive()
is_alive(thread) == thread.stack # <<>>

\* threading.RLock: acquire() blocks while another thread owns the lock
Acquirable(lock, t) == lock.owner \in {0, t}

acquire(lock, t) == [owner |-> t, depth |-> lock.depth + 1]

\* a lock that would stay with its owner
release_kept(lock) == lock

release(lock) == IF lock.depth = 1 THEN FreeLock ELSE [lock EXCEPT !.depth = @ - 1]

\* thread t goes on at program point label
Goto(r, t, label) == [r EXCEPT !.threads[t].stack = <<label>> \o Tail(@)]

\* thread t calls callee and goes on at label once the call has returned
Call(r, t, callee, label) == [r EXCEPT !.threads[t].stack = <<callee, label>> \o Tail(@)]

\* thread t returns from the call it is in, or leaves it by an exception
Leave(r, t) == [r EXCEPT !.threads[t].stack = Tail(@)]

\* thread t ends: its target has returned or raised
End(r, t) == [r EXCEPT !.threads[t].stack = <<>>]

\* a step that changes the Rower only
Step(r, label) ==
    /\ rower' = r
    /\ last' = label
    /\ UNCHANGED <<aggVars, progVars, now, callbacks, script, requested, hrm, hr, held,
                   codecVars, fmcp, pending, todo, values, hist>>

\* the application calls one of the operations Ops
call(Ops) ==
    \E t \in Threads :
        /\ pc(t) = "idle"
        /\ rower.calls < MaxCalls
        /\ \E op \in Ops :
              Step([Call(rower, t, op, "idle") EXCEPT !.calls = @ + 1], "call")

\* Rower.open, s4if.py 828: with self._serial_lock
open ==
    \E t \in Threads :
        /\ pc(t) = "open"
        /\ Acquirable(rower.serial_lock, t)
        /\ Step([Goto(rower, t, "_find_serial") EXCEPT !.serial_lock = acquire(@, t)],
                "open")

\* s4if.py 829-836: an open port is closed, then _find_serial returns with the
\* port open, and the lock is released
_find_serial ==
    \E t \in Threads :
        /\ pc(t) = "_find_serial"
        /\ Step([Goto(rower, t, "open_stop_event") EXCEPT
                   !.is_open = TRUE, !.serial_lock = release(@)], "_find_serial")

\* s4if.py 838-844 with the stop event set: it is cleared, _start_threads starts
\* three new daemons, and USB is written
_start_threads ==
    \E t \in Threads :
        /\ pc(t) = "open_stop_event"
        /\ rower.stop_event
        /\ Len(rower.threads) + Len(Daemons) <= MaxThreads
        /\ Cardinality({u \in Threads : is_alive(rower.threads[u])}) + Len(Daemons) <= MaxAlive
        /\ Step([Goto(rower, t, "write") EXCEPT
                   !.stop_event = FALSE, !.threads = @ \o Daemons], "_start_threads")

\* s4if.py 838-844 with the stop event clear: USB is written
open_write ==
    \E t \in Threads :
        /\ pc(t) = "open_stop_event"
        /\ ~rower.stop_event
        /\ Step(Goto(rower, t, "write"), "open_write")


\* Rower.write, s4if.py 859: with self._serial_lock
write_lock ==
    \E t \in Threads :
        /\ pc(t) = "write"
        /\ Acquirable(rower.serial_lock, t)
        /\ Step([Goto(rower, t, "serial_write") EXCEPT !.serial_lock = acquire(@, t)],
                "write_lock")

\* s4if.py 860-861: the command is written and flushed, the lock is released and
\* write returns
serial_write ==
    \E t \in Threads :
        /\ pc(t) = "serial_write"
        /\ rower.is_open
        /\ Step([Leave(rower, t) EXCEPT !.serial_lock = release(@)], "write")

\* s4if.py 862-864: the write raises, because the port is not open or because the
\* device fails; the lock is released and write calls open to reconnect
write_failed ==
    \E t \in Threads :
        /\ pc(t) = "serial_write"
        /\ (~rower.is_open \/ rower.faults < MaxFaults)
        /\ Step([Goto(rower, t, "open") EXCEPT
                   !.serial_lock = release(@),
                   !.faults = IF rower.is_open THEN @ + 1 ELSE @], "write_failed")

\* Rower.notify_callbacks: the next callback is called, in the order of callbacks;
\* pulse_monitor and, for an event that is not in IGNORE_LIST, on_rower_event take
\* _wr_lock
callback ==
    \E t \in Threads :
        /\ pc(t) = "notify_callbacks"
        /\ Acquirable(rower.wr_lock, t)
        /\ Step([Goto(rower, t, "callback") EXCEPT !.wr_lock = acquire(@, t)], "callback")

\* what the notifying thread goes on with once a callback has returned: the next
\* callback, or what follows notify_callbacks
Notified(r, t) ==
    IF r.threads[t].cb > 1 THEN [Goto(r, t, "notify_callbacks") EXCEPT !.threads[t].cb = @ - 1]
    ELSE [Leave(r, t) EXCEPT !.threads[t].cb = 0]

\* the callback returns and releases _wr_lock
callback_return ==
    \E t \in Threads :
        /\ pc(t) = "callback"
        /\ Step([Notified(rower, t) EXCEPT !.wr_lock = release(@)], "callback_return")

\* s4.py 262-264: on_rower_event returns at once for an event in IGNORE_LIST
callback_ignored ==
    \E t \in Threads :
        /\ pc(t) = "notify_callbacks"
        /\ callbacks[Len(callbacks) - rower.threads[t].cb + 1] = "on_rower_event"
        /\ Step(Notified(rower, t), "callback_ignored")

\* Rower.close, s4if.py 848: the callbacks are notified of the exit event
close ==
    \E t \in Threads :
        /\ pc(t) = "close"
        /\ Step([Call(rower, t, "notify_callbacks", "close_stop_event") EXCEPT
                   !.threads[t].cb = Len(callbacks)], "close")

\* s4if.py 849-850: the stop event is set
close_stop_event ==
    \E t \in Threads :
        /\ pc(t) = "close_stop_event"
        /\ Step([Goto(rower, t, "close_lock") EXCEPT !.stop_event = TRUE],
                "close_stop_event")

\* s4if.py 851: with self._serial_lock
close_lock ==
    \E t \in Threads :
        /\ pc(t) = "close_lock"
        /\ Acquirable(rower.serial_lock, t)
        /\ Step([Goto(rower, t, "close_is_open") EXCEPT !.serial_lock = acquire(@, t)],
                "close_lock")

\* s4if.py 852-853: the port is open and EXIT is written, the lock being held
close_write ==
    \E t \in Threads :
        /\ pc(t) = "close_is_open"
        /\ rower.is_open
        /\ Step(Call(rower, t, "write", "close_serial"), "close_write")

\* s4if.py 852: the port is not open; the lock is released and close returns
close_not_open ==
    \E t \in Threads :
        /\ pc(t) = "close_is_open"
        /\ ~rower.is_open
        /\ Step([Leave(rower, t) EXCEPT !.serial_lock = release(@)], "close_return")

\* s4if.py 854-855: after the sleep the port is closed, the lock is released and
\* close returns
close_serial ==
    \E t \in Threads :
        /\ pc(t) = "close_serial"
        /\ Step([Leave(rower, t) EXCEPT
                   !.is_open = FALSE, !.serial_lock = release(@)], "close_return")

\* RowerState.reset_rower, s4.py 585-586: request_reset writes RESET
reset_rower ==
    \E t \in Threads :
        /\ pc(t) = "reset_rower"
        /\ Step(Call(rower, t, "write", "_zero_state"), "reset_rower")

\* s4.py 587, 211: _zero_state takes _wr_lock
zero_state_lock ==
    \E t \in Threads :
        /\ pc(t) = "_zero_state"
        /\ Acquirable(rower.wr_lock, t)
        /\ Step([Goto(rower, t, "zero_state") EXCEPT !.wr_lock = acquire(@, t)],
                "zero_state_lock")

\* s4.py 212-257: the state is zeroed, _wr_lock is released and reset_rower returns
zero_state ==
    \E t \in Threads :
        /\ pc(t) = "zero_state"
        /\ _zero_state
        /\ rower' = [Leave(rower, t) EXCEPT !.wr_lock = release(@)]
        /\ last' = "reset_rower_return"
        /\ hist' = [hist EXCEPT !.reset_pending = TRUE, !.last_pulse_at = NoneInt,
                                 !.standstill_seen = FALSE, !.zone_seen = {}]
        /\ UNCHANGED <<request_categories, now, callbacks, script, requested, hrm, hr,
                       held, codecVars, fmcp, pending, todo, values>>


\* Rower.request_on_demand, s4if.py 960-964: the input buffer is about to be reset,
\* with no lock taken
request_on_demand ==
    \E t \in Threads :
        /\ pc(t) = "request_on_demand"
        /\ Step(Goto(rower, t, "reset_input_buffer"), "request_on_demand")

\* s4if.py 964-965: the buffer has been reset and the request is written
on_demand_write ==
    \E t \in Threads :
        /\ pc(t) = "reset_input_buffer"
        /\ rower.is_open
        /\ Step(Call(rower, t, "write", "capture_on_demand_response"),
                "on_demand_write")

\* s4if.py 964, 970-972 and 991-992: the port is not open; the exception leaves
\* request_on_demand
on_demand_not_open ==
    \E t \in Threads :
        /\ pc(t) \in {"reset_input_buffer", "capture_on_demand_response"}
        /\ ~rower.is_open
        /\ Step(Leave(rower, t), "on_demand_raise")

\* Rower.capture_on_demand_response, s4if.py 995-997: a line is about to be read,
\* with no lock taken
capture_on_demand_response ==
    \E t \in Threads :
        /\ pc(t) = "capture_on_demand_response"
        /\ rower.is_open
        /\ Step(Goto(rower, t, "on_demand_readline"), "capture_on_demand_response")

\* s4if.py 997-1015: the response, a timeout or an exception ends the call
on_demand_return ==
    \E t \in Threads :
        /\ pc(t) = "on_demand_readline"
        /\ Step(Leave(rower, t), "on_demand_return")

\* Rower._start_capturing, s4if.py 867: the stop event is set and the reader ends
capture_stopped ==
    \E t \in Threads :
        /\ pc(t) = "capture"
        /\ rower.stop_event
        /\ Step(End(rower, t), "capture_stopped")

\* s4if.py 867-870: the stop event is clear and the port is open (read with no
\* lock); with the port not open the reader waits and tests again
capture_is_open ==
    \E t \in Threads :
        /\ pc(t) = "capture"
        /\ ~rower.stop_event
        /\ rower.is_open
        /\ Step(Goto(rower, t, "capture_lock"), "capture_is_open")

\* s4if.py 870: with self._serial_lock
capture_lock ==
    \E t \in Threads :
        /\ pc(t) = "capture_lock"
        /\ Acquirable(rower.serial_lock, t)
        /\ Step([Goto(rower, t, "readline") EXCEPT !.serial_lock = acquire(@, t)],
                "capture_lock")

\* s4if.py 871-874: the read times out with no line; the lock is released
readline_empty ==
    \E t \in Threads :
        /\ pc(t) = "readline"
        /\ rower.is_open
        /\ Step([Goto(rower, t, "capture") EXCEPT !.serial_lock = release(@)],
                "readline_empty")

\* s4if.py 871-878: a line is read; the lock is released and the callbacks are
\* notified of its event
readline_event ==
    \E t \in Threads :
        /\ pc(t) = "readline"
        /\ rower.is_open
        /\ Step([Call(rower, t, "notify_callbacks", "capture") EXCEPT
                   !.serial_lock = release(@), !.threads[t].cb = Len(callbacks)],
                "readline_event")

\* s4if.py 880-881: the read raises SerialException, because the port has been
\* closed since it was seen open or because the device fails
readline_failed ==
    \E t \in Threads :
        /\ pc(t) = "readline"
        /\ (~rower.is_open \/ rower.faults < MaxFaults)
        /\ Step([Goto(rower, t, "capture_error") EXCEPT
                   !.serial_lock = release(@),
                   !.faults = IF rower.is_open THEN @ + 1 ELSE @], "readline_failed")

\* s4if.py 882-883: the handler takes the lock to reset the input buffer
capture_error ==
    \E t \in Threads :
        /\ pc(t) = "capture_error"
        /\ Acquirable(rower.serial_lock, t)
        /\ Step([Goto(rower, t, "capture_reset_input_buffer") EXCEPT
                   !.serial_lock = acquire(@, t)], "capture_error")

\* s4if.py 884-887: the buffer is reset, or the reset fails and is logged; the
\* lock is released and the exception is raised again, which ends the thread
capture_raise ==
    \E t \in Threads :
        /\ pc(t) = "capture_reset_input_buffer"
        /\ Step([End(rower, t) EXCEPT !.serial_lock = release(@)], "capture_raise")

\* Rower._start_requesting, s4if.py 899: the stop event is set and the loop ends
request_stopped ==
    \E t \in Threads :
        /\ pc(t) = "request"
        /\ rower.stop_event
        /\ Step(End(rower, t), "request_stopped")

\* s4if.py 899-904: the stop event is clear and the port, looked at under the
\* lock, is open: a sweep over MEMORY_MAP starts; with the port not open the loop
\* waits and tests again
request_is_open ==
    \E t \in Threads :
        /\ pc(t) = "request"
        /\ ~rower.stop_event
        /\ Acquirable(rower.serial_lock, t)
        /\ rower.is_open
        /\ Step([Goto(rower, t, "sweep") EXCEPT !.threads[t].at = 0], "request_is_open")

\* s4if.py 905-910: the entry is polled by the loop of frequency freq under the
\* categories given
Polled_anyCategory(memory, freq, categories) ==
    memory.frequency = freq /\ ~memory.exclude_from_poll_loop

Polled(memory, freq, categories) ==
    /\ memory.frequency = freq
    /\ ~memory.exclude_from_poll_loop
    /\ categories[memory.category] # FALSE

\* s4if.py 904-913, whatever the position of the sweep: an entry that is polled
\* is requested
sweep_request ==
    \E t \in Threads :
        /\ pc(t) = "sweep"
        /\ {memory \in MEMORY_MAP :
              Polled(memory, rower.threads[t].kind, request_categories)} # {}
        /\ Step(Call(rower, t, "write", "sweep"), "request_address")

\* s4if.py 915-921, whatever the position of the sweep: the sweep is over
sweep_end ==
    \E t \in Threads :
        /\ pc(t) = "sweep"
        /\ Step(Goto(rower, t, "request"), "sweep_end")

Operations == {"open", "close", "reset_rower", "request_on_demand"}

NextThreads ==
    \/ call(Operations)
    \/ open
    \/ _find_serial
    \/ _start_threads
    \/ open_write
    \/ write_lock
    \/ serial_write
    \/ write_failed
    \/ callback
    \/ callback_return
    \/ callback_ignored
    \/ close
    \/ close_stop_event
    \/ close_lock
    \/ close_write
    \/ close_not_open
    \/ close_serial
    \/ reset_rower
    \/ zero_state_lock
    \/ zero_state
    \/ request_on_demand
    \/ on_demand_write
    \/ on_demand_not_open
    \/ capture_on_demand_response
    \/ on_demand_return
    \/ capture_stopped
    \/ capture_is_open
    \/ capture_lock
    \/ readline_empty
    \/ readline_event
    \/ readline_failed
    \/ capture_error
    \/ capture_raise
    \/ request_stopped
    \/ request_is_open
    \/ sweep_request
    \/ sweep_end

SpecThreads == Init /\ [][NextThreads]_vars


\* the threads of a kind that are alive
Alive(kind) == {t \in Threads : rower.threads[t].kind = kind /\ is_alive(rower.threads[t])}

\* C38: at most one reader thread, one high-frequency request thread and one
\* low-frequency request thread are alive at any time, whatever the interleaving of
\* close(), open() and the reconnects of failed writes
C38_OneThreadOfAKind ==
    \A kind \in {"capture", "high", "low"} : Cardinality(Alive(kind)) <= 1

\* C34: when close() returns the stop flag is still set, so that the loops exit at
\* their next test of it and none has been started again, also when the write of
\* EXIT has failed
C34_StoppedAfterClose ==
    last = "close_return" => rower.stop_event

\* C33: the reader thread never terminates while the stop flag is clear: a reader
\* that is alive ends only in a step that finds the stop flag set
C33_ReaderEndsOnlyOnStop ==
    [][\A t \in Threads :
          (rower.threads[t].kind = "capture" /\ is_alive(rower.threads[t])
              /\ ~is_alive(rower'.threads[t])) => rower.stop_event]_vars

\* the program points at which a thread is operating on the serial device: opening
\* or closing the port, writing, reading a line, resetting the input buffer
DeviceOperations ==
    {"_find_serial", "serial_write", "close_serial", "readline",
     "capture_reset_input_buffer", "reset_input_buffer", "on_demand_readline"}

\* C35: every operation on the serial device is performed by a thread that holds
\* the serial lock
C35_DeviceUnderSerialLock ==
    \A t \in Threads : pc(t) \in DeviceOperations => rower.serial_lock.owner = t

\* C40: no thread holds the serial lock and the aggregator's state lock at the same
\* time
C40_LocksNeverNested ==
    \A t \in Threads : ~(rower.serial_lock.owner = t /\ rower.wr_lock.owner = t)

\* both locks are held, each by a thread of its own
C40_Witness ==
    /\ rower.serial_lock.owner # 0
    /\ rower.wr_lock.owner # 0


\* the keys of MEMORY_MAP in the order of their declaration, which is the order in
\* which MEMORY_MAP.items() yields them
MEMORY_ORDER ==
    <<<<"0", "0", "D">>, <<"0", "0", "E">>, <<"0", "0", "F">>, <<"0", "3", "E">>, <<"0", "3", "F">>,
      <<"0", "4", "1">>, <<"0", "4", "2">>, <<"0", "4", "4">>, <<"0", "4", "7">>, <<"0", "5", "5">>,
      <<"0", "5", "4">>, <<"0", "8", "8">>, <<"0", "8", "A">>, <<"0", "9", "0">>, <<"0", "9", "1">>,
      <<"0", "9", "2">>, <<"0", "9", "4">>, <<"0", "9", "6">>, <<"0", "9", "8">>, <<"0", "9", "A">>,
      <<"0", "9", "C">>, <<"0", "9", "E">>, <<"0", "A", "0">>, <<"0", "A", "2">>, <<"0", "A", "3">>,
      <<"0", "A", "9">>, <<"1", "4", "0">>, <<"1", "4", "2">>, <<"1", "4", "3">>, <<"1", "4", "A">>,
      <<"1", "A", "0">>, <<"1", "A", "5">>, <<"1", "A", "9">>, <<"1", "E", "3">>, <<"1", "E", "2">>,
      <<"1", "E", "1">>, <<"1", "E", "0">>, <<"1", "E", "8">>, <<"1", "E", "A">>, <<"1", "E", "C">>,
      <<"1", "B", "0">>, <<"1", "B", "2">>, <<"1", "B", "4">>, <<"1", "B", "6">>, <<"1", "B", "8">>,
      <<"1", "B", "A">>, <<"1", "B", "C">>, <<"1", "B", "E">>, <<"1", "C", "0">>, <<"1", "C", "2">>,
      <<"1", "C", "4">>, <<"1", "C", "6">>, <<"1", "C", "8">>, <<"1", "C", "A">>, <<"1", "C", "C">>,
      <<"1", "C", "E">>, <<"1", "D", "0">>, <<"1", "D", "9">>>>

\* the entries of MEMORY_MAP in the order of their declaration
MemoryItems == [k \in 1..Len(MEMORY_ORDER) |-> MemoryAt(MEMORY_ORDER[k])]

\* for a loop of frequency freq that has dealt with the first i entries, the
\* positions of the entries of its frequency that are not excluded: the loop passes
\* the others, s4if.py 905-908, whatever the other threads do
Candidates ==
    [freq \in {"high", "low"} |->
        [i \in 0..Len(MEMORY_ORDER) |->
            {k \in (i + 1)..Len(MEMORY_ORDER) :
                /\ MemoryItems[k].frequency = freq
                /\ ~MemoryItems[k].exclude_from_poll_loop}]]

\* the position of the entry the loop tests next, 0 at the end of MEMORY_MAP
Candidate ==
    [freq \in {"high", "low"} |->
        [i \in 0..Len(MEMORY_ORDER) |->
            IF Candidates[freq][i] = {} THEN 0
            ELSE CHOOSE k \in Candidates[freq][i] : \A j \in Candidates[freq][i] : k <= j]]

\* the position of the entry the sweep of thread t tests next
Next_at(t) == Candidate[rower.threads[t].kind][rower.threads[t].at]

\* s4if.py 904-910: the entry's category is switched off, and the loop continues
\* with the next entry
poll_skip ==
    \E t \in Threads :
        /\ pc(t) = "sweep"
        /\ Next_at(t) # 0
        /\ ~Polled(MemoryItems[Next_at(t)], rower.threads[t].kind,
                   request_categories)
        /\ Step([rower EXCEPT !.threads[t].at = Next_at(t)], "continue")

\* s4if.py 904-913: the entry is polled: request_address writes its request, and
\* the loop goes on with the next entry after the wait
poll_request ==
    \E t \in Threads :
        /\ pc(t) = "sweep"
        /\ Next_at(t) # 0
        /\ Polled(MemoryItems[Next_at(t)], rower.threads[t].kind,
                  request_categories)
        /\ Step([Call(rower, t, "write", "sweep") EXCEPT !.threads[t].at = Next_at(t)],
                "request_address")

\* s4if.py 915-921: the sweep has come to the end of MEMORY_MAP
poll_end ==
    \E t \in Threads :
        /\ pc(t) = "sweep"
        /\ Next_at(t) = 0
        /\ Step(Goto(rower, t, "request"), "sweep_end")

\* the categories the handlers of the aggregator switch together (s4.py 362-404)
SwitchedCategories == {{"workout", "distance"}, {"zone", "intensity"}}

\* a handler, running in the reader's callback, switches categories on or off
\* while the loops are polling (Rower.set_request_category, s4if.py 894-895)
SetRequestCategory ==
    /\ rower.is_open
    /\ \E cats \in SwitchedCategories, enabled \in BOOLEAN :
          request_categories' = set_request_category(request_categories, cats, enabled)
    /\ request_categories' # request_categories
    /\ last' = "set_request_category"
    /\ UNCHANGED <<aggVars, workout_builder, workout, zone_builder, zone, envVars, pending,
                   todo, values, hist>>

\* s4_data_task, s4.py 639-640: the application opens the port of the Rower it has
\* constructed
s4_data_task ==
    /\ ~rower.is_open
    /\ call({"open"})

NextPolling ==
    \/ s4_data_task
    \/ open
    \/ _find_serial
    \/ open_write
    \/ write_lock
    \/ serial_write
    \/ request_is_open
    \/ poll_skip
    \/ poll_request
    \/ poll_end
    \/ SetRequestCategory

SpecPolling == Init /\ [][NextPolling]_vars

====
